---- MODULE Spec2Model ----
\* A model of the jots operation and query core (src/core/operations.ts,
\* src/core/queries.ts): the immutable tree of Epics, Tasks and Subtasks, the
\* add / update / markComplete / removeItem operations and the getNext query.
EXTENDS Integers, Sequences, FiniteSets, TLC

\* ---------------------------------------------------------------- bounds
\* Ids the generator hands out during one behaviour.
MaxIds == 4
\* Entities (Epics + Tasks + Subtasks) alive in the tree at one time.
MaxItems == 4
\* Last instant of the clock.
MaxTime == 4

Ids == 1..MaxIds

\* An optional value: undefined is the empty tuple, a defined value v is <<v>>.
None == <<>>
Some(v) == <<v>>

\* ---------------------------------------------------------------- results
Ok(data) == [success |-> TRUE, data |-> data]
Fail(msg, id) == [success |-> FALSE, error |-> <<msg, id>>]

\* Array.prototype.findIndex on the id: the first index holding id, 0 for -1.
findIndex(seq, id) ==
    IF \E i \in 1..Len(seq) : seq[i].id = id
    THEN CHOOSE i \in 1..Len(seq) :
            seq[i].id = id /\ \A j \in 1..(i - 1) : seq[j].id # id
    ELSE 0

NotFound == [found |-> FALSE]

findEpic(s, epicId) ==
    LET index == findIndex(s.epics, epicId)
    IN  IF index = 0 THEN NotFound
        ELSE [found |-> TRUE, epic |-> s.epics[index], index |-> index]

findTask(s, epicId, taskId) ==
    LET epicLookup == findEpic(s, epicId)
    IN  IF ~epicLookup.found THEN NotFound
        ELSE LET taskIndex == findIndex(epicLookup.epic.tasks, taskId)
             IN  IF taskIndex = 0 THEN NotFound
                 ELSE [found |-> TRUE, epic |-> epicLookup.epic,
                       epicIndex |-> epicLookup.index,
                       task |-> epicLookup.epic.tasks[taskIndex],
                       taskIndex |-> taskIndex]

findSubtask(s, epicId, taskId, subtaskId) ==
    LET taskLookup == findTask(s, epicId, taskId)
    IN  IF ~taskLookup.found THEN NotFound
        ELSE LET subtaskIndex == findIndex(taskLookup.task.subtasks, subtaskId)
             IN  IF subtaskIndex = 0 THEN NotFound
                 ELSE [found |-> TRUE, epic |-> taskLookup.epic,
                       epicIndex |-> taskLookup.epicIndex,
                       task |-> taskLookup.task,
                       taskIndex |-> taskLookup.taskIndex,
                       subtask |-> taskLookup.task.subtasks[subtaskIndex],
                       subtaskIndex |-> subtaskIndex]

findStandaloneTask(s, taskId) ==
    LET index == findIndex(s.tasks, taskId)
    IN  IF index = 0 THEN NotFound
        ELSE [found |-> TRUE, task |-> s.tasks[index], index |-> index]

updateStandaloneTaskInState(s, index, task) ==
    [s EXCEPT !.tasks[index] = task]

updateEpicInState(s, index, epic) ==
    [s EXCEPT !.epics[index] = epic]

\* A replacement of a Task in its Epic that leaves the Epic's updated_at as it was.
updateTaskInEpicStale(epic, taskIndex, task, now) ==
    [epic EXCEPT !.tasks[taskIndex] = task]

updateTaskInEpic(epic, taskIndex, task, now) ==
    [epic EXCEPT !.tasks[taskIndex] = task, !.updated_at = Some(now)]

updateSubtaskInTask(task, subtaskIndex, subtask, now) ==
    [task EXCEPT !.subtasks[subtaskIndex] = subtask, !.updated_at = Some(now)]

\* ---------------------------------------------------------------- add
\* The leaf fields every entity is created with.
NewSubtask(id, input, now) ==
    [id |-> id, content |-> input.content, priority |-> input.priority,
     status |-> "pending", created_at |-> now, updated_at |-> None,
     completed_at |-> None, implementation_description |-> None,
     notes |-> input.notes, deps |-> input.deps]

NewTask(id, input, now) ==
    [id |-> id, content |-> input.content, priority |-> input.priority,
     status |-> "pending", created_at |-> now, updated_at |-> None,
     completed_at |-> None, implementation_description |-> None,
     notes |-> input.notes, deps |-> input.deps, subtasks |-> <<>>]

NewEpic(id, input, now) ==
    [id |-> id, content |-> input.content, priority |-> input.priority,
     status |-> "pending", created_at |-> now, updated_at |-> None,
     completed_at |-> None, implementation_description |-> None,
     notes |-> input.notes, deps |-> input.deps, tasks |-> <<>>]

addEpic(s, input, id, now) ==
    LET epic == NewEpic(id, input, now)
    IN  Ok([state |-> [s EXCEPT !.epics = Append(s.epics, epic)], epic |-> epic])

\* The id that is the empty string, which the truth test of addTask takes for
\* no id; generateId() never returns it.
EmptyId == 0

\* An addTask that puts the new Task in front of its siblings.
addTaskInFront(s, input, id, now) ==
    LET task == NewTask(id, input, now)
    IN  IF input.epicId = None \/ input.epicId = Some(EmptyId)
        THEN Ok([state |-> [s EXCEPT !.tasks = <<task>> \o s.tasks], task |-> task])
        ELSE LET lookup == findEpic(s, input.epicId[1])
             IN  IF ~lookup.found THEN Fail("Epic not found", input.epicId[1])
                 ELSE LET updatedEpic ==
                              [lookup.epic EXCEPT !.tasks = <<task>> \o lookup.epic.tasks,
                                                  !.updated_at = Some(now)]
                      IN  Ok([state |-> updateEpicInState(s, lookup.index, updatedEpic),
                              task |-> task])

\* input.epicId is None for a Task given no epicId.
addTask(s, input, id, now) ==
    LET task == NewTask(id, input, now)
    IN  IF input.epicId = None \/ input.epicId = Some(EmptyId)
        THEN Ok([state |-> [s EXCEPT !.tasks = Append(s.tasks, task)], task |-> task])
        ELSE LET lookup == findEpic(s, input.epicId[1])
             IN  IF ~lookup.found THEN Fail("Epic not found", input.epicId[1])
                 ELSE LET updatedEpic ==
                              [lookup.epic EXCEPT !.tasks = Append(lookup.epic.tasks, task),
                                                  !.updated_at = Some(now)]
                      IN  Ok([state |-> updateEpicInState(s, lookup.index, updatedEpic),
                              task |-> task])

addSubtask(s, input, id, now) ==
    LET lookup == findTask(s, input.epicId, input.taskId)
    IN  IF ~lookup.found THEN Fail("Task not found", input.taskId)
        ELSE LET subtask == NewSubtask(id, input, now)
                 updatedTask ==
                     [lookup.task EXCEPT !.subtasks = Append(lookup.task.subtasks, subtask),
                                         !.updated_at = Some(now)]
                 updatedEpic == updateTaskInEpic(lookup.epic, lookup.taskIndex, updatedTask, now)
             IN  Ok([state |-> updateEpicInState(s, lookup.epicIndex, updatedEpic),
                     subtask |-> subtask])

addStandaloneSubtask(s, input, id, now) ==
    LET lookup == findStandaloneTask(s, input.taskId)
    IN  IF ~lookup.found THEN Fail("Standalone task not found", input.taskId)
        ELSE LET subtask == NewSubtask(id, input, now)
                 updatedTask ==
                     [lookup.task EXCEPT !.subtasks = Append(lookup.task.subtasks, subtask),
                                         !.updated_at = Some(now)]
             IN  Ok([state |-> updateStandaloneTaskInState(s, lookup.index, updatedTask),
                     subtask |-> subtask])

\* ---------------------------------------------------------------- update
\* An update that writes notes whether or not the input has them.
applyUpdateOverwriting(item, input, now) ==
    LET a == IF input.content # None THEN [item EXCEPT !.content = input.content[1]] ELSE item
        b == IF input.priority # None THEN [a EXCEPT !.priority = input.priority[1]] ELSE a
        c == IF input.status # None THEN [b EXCEPT !.status = input.status[1]] ELSE b
        d == IF input.implementation_description # None
             THEN [c EXCEPT !.implementation_description = input.implementation_description]
             ELSE c
        f == IF input.deps # None THEN [d EXCEPT !.deps = input.deps] ELSE d
        g == [f EXCEPT !.notes = input.notes, !.updated_at = Some(now)]
    IN  IF input.status = Some("completed") THEN [g EXCEPT !.completed_at = Some(now)] ELSE g

\* An update that clears completed_at when the status moves away from completed.
applyUpdateClearing(item, input, now) ==
    LET a == IF input.content # None THEN [item EXCEPT !.content = input.content[1]] ELSE item
        b == IF input.priority # None THEN [a EXCEPT !.priority = input.priority[1]] ELSE a
        c == IF input.status # None THEN [b EXCEPT !.status = input.status[1]] ELSE b
        d == IF input.implementation_description # None
             THEN [c EXCEPT !.implementation_description = input.implementation_description]
             ELSE c
        e == IF input.notes # None THEN [d EXCEPT !.notes = input.notes] ELSE d
        f == IF input.deps # None THEN [e EXCEPT !.deps = input.deps] ELSE e
        g == [f EXCEPT !.updated_at = Some(now)]
    IN  IF input.status = Some("completed") THEN [g EXCEPT !.completed_at = Some(now)]
        ELSE IF input.status # None THEN [g EXCEPT !.completed_at = None]
        ELSE g

\* An update that leaves completed_at as it was.
applyUpdateUnstamped(item, input, now) ==
    LET a == IF input.content # None THEN [item EXCEPT !.content = input.content[1]] ELSE item
        b == IF input.priority # None THEN [a EXCEPT !.priority = input.priority[1]] ELSE a
        c == IF input.status # None THEN [b EXCEPT !.status = input.status[1]] ELSE b
        d == IF input.implementation_description # None
             THEN [c EXCEPT !.implementation_description = input.implementation_description]
             ELSE c
        e == IF input.notes # None THEN [d EXCEPT !.notes = input.notes] ELSE d
        f == IF input.deps # None THEN [e EXCEPT !.deps = input.deps] ELSE e
    IN  [f EXCEPT !.updated_at = Some(now)]

\* An update that spells the completed status as no status of the enum.
applyUpdateDone(item, input, now) ==
    LET a == IF input.content # None THEN [item EXCEPT !.content = input.content[1]] ELSE item
        b == IF input.priority # None THEN [a EXCEPT !.priority = input.priority[1]] ELSE a
        c == IF input.status # None
             THEN [b EXCEPT !.status = IF input.status[1] = "completed" THEN "done"
                                       ELSE input.status[1]]
             ELSE b
        d == IF input.implementation_description # None
             THEN [c EXCEPT !.implementation_description = input.implementation_description]
             ELSE c
        e == IF input.notes # None THEN [d EXCEPT !.notes = input.notes] ELSE d
        f == IF input.deps # None THEN [e EXCEPT !.deps = input.deps] ELSE e
        g == [f EXCEPT !.updated_at = Some(now)]
    IN  IF input.status = Some("completed") THEN [g EXCEPT !.completed_at = Some(now)] ELSE g

\* Every field of an UpdateItemInput is optional.
applyUpdate(item, input, now) ==
    LET a == IF input.content # None THEN [item EXCEPT !.content = input.content[1]] ELSE item
        b == IF input.priority # None THEN [a EXCEPT !.priority = input.priority[1]] ELSE a
        c == IF input.status # None THEN [b EXCEPT !.status = input.status[1]] ELSE b
        d == IF input.implementation_description # None
             THEN [c EXCEPT !.implementation_description = input.implementation_description]
             ELSE c
        e == IF input.notes # None THEN [d EXCEPT !.notes = input.notes] ELSE d
        f == IF input.deps # None THEN [e EXCEPT !.deps = input.deps] ELSE e
        g == [f EXCEPT !.updated_at = Some(now)]
    IN  IF input.status = Some("completed") THEN [g EXCEPT !.completed_at = Some(now)] ELSE g

\* An update that lets an Epic id that does not resolve pass, the state as it was.
updateEpicLenient(s, epicId, input, now) ==
    LET lookup == findEpic(s, epicId)
    IN  IF ~lookup.found THEN Ok(s)
        ELSE Ok(updateEpicInState(s, lookup.index, applyUpdate(lookup.epic, input, now)))

updateEpic(s, epicId, input, now) ==
    LET lookup == findEpic(s, epicId)
    IN  IF ~lookup.found THEN Fail("Epic not found", epicId)
        ELSE Ok(updateEpicInState(s, lookup.index, applyUpdate(lookup.epic, input, now)))

updateTask(s, epicId, taskId, input, now) ==
    LET lookup == findTask(s, epicId, taskId)
    IN  IF ~lookup.found THEN Fail("Task not found", taskId)
        ELSE LET updatedTask == applyUpdate(lookup.task, input, now)
                 updatedEpic == updateTaskInEpic(lookup.epic, lookup.taskIndex, updatedTask, now)
             IN  Ok(updateEpicInState(s, lookup.epicIndex, updatedEpic))

updateSubtask(s, epicId, taskId, subtaskId, input, now) ==
    LET lookup == findSubtask(s, epicId, taskId, subtaskId)
    IN  IF ~lookup.found THEN Fail("Subtask not found", subtaskId)
        ELSE LET updatedSubtask == applyUpdate(lookup.subtask, input, now)
                 updatedTask ==
                     updateSubtaskInTask(lookup.task, lookup.subtaskIndex, updatedSubtask, now)
                 updatedEpic == updateTaskInEpic(lookup.epic, lookup.taskIndex, updatedTask, now)
             IN  Ok(updateEpicInState(s, lookup.epicIndex, updatedEpic))

updateStandaloneTask(s, taskId, input, now) ==
    LET lookup == findStandaloneTask(s, taskId)
    IN  IF ~lookup.found THEN Fail("Standalone task not found", taskId)
        ELSE Ok(updateStandaloneTaskInState(s, lookup.index,
                                            applyUpdate(lookup.task, input, now)))

updateStandaloneSubtask(s, taskId, subtaskId, input, now) ==
    LET lookup == findStandaloneTask(s, taskId)
    IN  IF ~lookup.found THEN Fail("Standalone task not found", taskId)
        ELSE LET subtaskIndex == findIndex(lookup.task.subtasks, subtaskId)
             IN  IF subtaskIndex = 0 THEN Fail("Subtask not found", subtaskId)
                 ELSE LET updatedSubtask ==
                              applyUpdate(lookup.task.subtasks[subtaskIndex], input, now)
                          updatedTask ==
                              [lookup.task EXCEPT !.subtasks[subtaskIndex] = updatedSubtask,
                                                  !.updated_at = Some(now)]
                      IN  Ok(updateStandaloneTaskInState(s, lookup.index, updatedTask))

\* ---------------------------------------------------------------- markComplete
\* The input markComplete passes to the update functions: { status: 'completed' }.
CompletedInput ==
    [content |-> None, priority |-> None, status |-> Some("completed"),
     implementation_description |-> None, notes |-> None, deps |-> None]

allCompleted(seq) == \A i \in 1..Len(seq) : seq[i].status = "completed"

\* A completion of an Epic that completes the Tasks it owns with it.
markEpicCompleteDownwards(s, epicId, ts) ==
    LET result == updateEpic(s, epicId, CompletedInput, ts[1])
        lookup == findEpic(s, epicId)
    IN  IF ~result.success THEN result
        ELSE Ok([result.data EXCEPT
                    !.epics[lookup.index].tasks =
                        [k \in 1..Len(@) |-> [@[k] EXCEPT !.status = "completed"]]])

\* ts is the sequence of instants the successive timestamp() calls return.
markEpicComplete(s, epicId, ts) == updateEpic(s, epicId, CompletedInput, ts[1])

\* A cascade that stops below the Epic whatever its Tasks are.
maybeCompleteEpicStopping(s, epicId, now) == Ok(s)

\* A cascade that completes the Epic whatever its Tasks are.
maybeCompleteEpicAnyway(s, epicId, now) == updateEpic(s, epicId, CompletedInput, now)

\* now is the instant of the one timestamp() call this step may make.
maybeCompleteEpic(s, epicId, now) ==
    LET index == findIndex(s.epics, epicId)
    IN  IF index = 0 \/ Len(s.epics[index].tasks) = 0 THEN Ok(s)
        ELSE IF ~allCompleted(s.epics[index].tasks) THEN Ok(s)
        ELSE updateEpic(s, epicId, CompletedInput, now)

maybeCompleteTaskAndEpic(s, epicId, taskId, ts) ==
    LET index == findIndex(s.epics, epicId)
        taskIndex == IF index = 0 THEN 0 ELSE findIndex(s.epics[index].tasks, taskId)
    IN  IF taskIndex = 0 \/ Len(s.epics[index].tasks[taskIndex].subtasks) = 0 THEN Ok(s)
        ELSE LET task == s.epics[index].tasks[taskIndex]
             IN  IF ~allCompleted(task.subtasks) \/ task.status = "completed" THEN Ok(s)
                 ELSE LET result == updateTask(s, epicId, taskId, CompletedInput, ts[2])
                      IN  IF ~result.success THEN result
                          ELSE maybeCompleteEpic(result.data, epicId, ts[3])

completeTaskAndCascade(s, epicId, taskId, ts) ==
    LET result == updateTask(s, epicId, taskId, CompletedInput, ts[1])
    IN  IF ~result.success THEN result
        ELSE maybeCompleteEpic(result.data, epicId, ts[2])

completeSubtaskAndCascade(s, epicId, taskId, subtaskId, ts) ==
    LET result == updateSubtask(s, epicId, taskId, subtaskId, CompletedInput, ts[1])
    IN  IF ~result.success THEN result
        ELSE maybeCompleteTaskAndEpic(result.data, epicId, taskId, ts)

\* The first Task of the Epic, in order, that is id or owns a Subtask id; 0 if none.
firstTaskHolding(tasks, id) ==
    LET holds(i) == tasks[i].id = id \/ findIndex(tasks[i].subtasks, id) # 0
    IN  IF \E i \in 1..Len(tasks) : holds(i)
        THEN CHOOSE i \in 1..Len(tasks) : holds(i) /\ \A j \in 1..(i - 1) : ~holds(j)
        ELSE 0

findAndCompleteSubtask(s, epic, task, id, ts) ==
    completeSubtaskAndCascade(s, epic.id, task.id, id, ts)

\* Called only for an Epic one of whose Tasks holds id (otherwise it returns null).
findAndCompleteTask(s, epic, id, ts) ==
    LET i == firstTaskHolding(epic.tasks, id)
    IN  IF epic.tasks[i].id = id THEN completeTaskAndCascade(s, epic.id, id, ts)
        ELSE findAndCompleteSubtask(s, epic, epic.tasks[i], id, ts)

completeStandaloneTask(s, taskId, ts) ==
    updateStandaloneTask(s, taskId, CompletedInput, ts[1])

maybeCompleteStandaloneTask(s, taskId, now) ==
    LET index == findIndex(s.tasks, taskId)
    IN  IF index = 0 \/ Len(s.tasks[index].subtasks) = 0 THEN Ok(s)
        ELSE IF ~allCompleted(s.tasks[index].subtasks) \/ s.tasks[index].status = "completed"
             THEN Ok(s)
        ELSE updateStandaloneTask(s, taskId, CompletedInput, now)

completeStandaloneSubtaskAndCascade(s, taskId, subtaskId, ts) ==
    LET lookup == findStandaloneTask(s, taskId)
    IN  IF ~lookup.found THEN Fail("Standalone task not found", taskId)
        ELSE LET subtaskIndex == findIndex(lookup.task.subtasks, subtaskId)
             IN  IF subtaskIndex = 0 THEN Fail("Subtask not found", subtaskId)
                 ELSE LET updatedSubtask ==
                              applyUpdate(lookup.task.subtasks[subtaskIndex],
                                          CompletedInput, ts[1])
                          updatedTask ==
                              [lookup.task EXCEPT !.subtasks[subtaskIndex] = updatedSubtask,
                                                  !.updated_at = Some(ts[1])]
                          newState ==
                              updateStandaloneTaskInState(s, lookup.index, updatedTask)
                      IN  maybeCompleteStandaloneTask(newState, taskId, ts[2])

findAndCompleteStandaloneSubtask(s, task, id, ts) ==
    completeStandaloneSubtaskAndCascade(s, task.id, id, ts)

\* The first Epic, in order, that is id or holds id below it; 0 if none.
firstEpicHolding(epics, id) ==
    LET holds(i) == epics[i].id = id \/ firstTaskHolding(epics[i].tasks, id) # 0
    IN  IF \E i \in 1..Len(epics) : holds(i)
        THEN CHOOSE i \in 1..Len(epics) : holds(i) /\ \A j \in 1..(i - 1) : ~holds(j)
        ELSE 0

\* A markComplete that returns the state as it is when the item is completed already.
markCompleteSkipping(s, id, ts) ==
    LET e == firstEpicHolding(s.epics, id)
        t == firstTaskHolding(s.tasks, id)
        done(item) == item.id = id /\ item.status = "completed"
        among(tasks) ==
            \E k \in 1..Len(tasks) :
                done(tasks[k]) \/ \E j \in 1..Len(tasks[k].subtasks) : done(tasks[k].subtasks[j])
    IN  IF \/ \E i \in 1..Len(s.epics) : done(s.epics[i]) \/ among(s.epics[i].tasks)
           \/ among(s.tasks)
        THEN Ok(s)
        ELSE IF e # 0
        THEN IF s.epics[e].id = id THEN markEpicComplete(s, id, ts)
             ELSE findAndCompleteTask(s, s.epics[e], id, ts)
        ELSE IF t # 0
        THEN IF s.tasks[t].id = id THEN completeStandaloneTask(s, id, ts)
             ELSE findAndCompleteStandaloneSubtask(s, s.tasks[t], id, ts)
        ELSE Fail("Item not found", id)

markComplete(s, id, ts) ==
    LET e == firstEpicHolding(s.epics, id)
        t == firstTaskHolding(s.tasks, id)
    IN  IF e # 0
        THEN IF s.epics[e].id = id THEN markEpicComplete(s, id, ts)
             ELSE findAndCompleteTask(s, s.epics[e], id, ts)
        ELSE IF t # 0
        THEN IF s.tasks[t].id = id THEN completeStandaloneTask(s, id, ts)
             ELSE findAndCompleteStandaloneSubtask(s, s.tasks[t], id, ts)
        ELSE Fail("Item not found", id)

\* ---------------------------------------------------------------- remove
\* Array.prototype.splice(index, 1) on a copy.
splice(seq, index) ==
    SubSeq(seq, 1, index - 1) \o SubSeq(seq, index + 1, Len(seq))

removeEpic(s, epicIndex) == Ok([s EXCEPT !.epics = splice(s.epics, epicIndex)])

\* A removal of a Task that reopens the Epic it leaves without Tasks.
removeTaskReopening(s, epicIndex, epic, taskIndex, now) ==
    LET updatedEpic ==
            [epic EXCEPT !.tasks = splice(epic.tasks, taskIndex),
                         !.updated_at = Some(now),
                         !.status = IF Len(epic.tasks) = 1 THEN "pending" ELSE @]
    IN  Ok(updateEpicInState(s, epicIndex, updatedEpic))

removeTask(s, epicIndex, epic, taskIndex, now) ==
    LET updatedEpic == [epic EXCEPT !.tasks = splice(epic.tasks, taskIndex),
                                    !.updated_at = Some(now)]
    IN  Ok(updateEpicInState(s, epicIndex, updatedEpic))

removeSubtask(s, epicIndex, epic, taskIndex, task, subtaskIndex, now) ==
    LET updatedTask == [task EXCEPT !.subtasks = splice(task.subtasks, subtaskIndex),
                                    !.updated_at = Some(now)]
        updatedEpic == updateTaskInEpic(epic, taskIndex, updatedTask, now)
    IN  Ok(updateEpicInState(s, epicIndex, updatedEpic))

findAndRemoveSubtask(s, epicIndex, epic, taskIndex, task, id, now) ==
    removeSubtask(s, epicIndex, epic, taskIndex, task, findIndex(task.subtasks, id), now)

\* Called only for an Epic one of whose Tasks holds id (otherwise it returns null).
findAndRemoveTask(s, epic, epicIndex, id, now) ==
    LET i == firstTaskHolding(epic.tasks, id)
    IN  IF epic.tasks[i].id = id THEN removeTask(s, epicIndex, epic, i, now)
        ELSE findAndRemoveSubtask(s, epicIndex, epic, i, epic.tasks[i], id, now)

removeStandaloneTask(s, taskIndex) == Ok([s EXCEPT !.tasks = splice(s.tasks, taskIndex)])

removeStandaloneSubtask(s, taskIndex, task, subtaskIndex, now) ==
    LET updatedTask == [task EXCEPT !.subtasks = splice(task.subtasks, subtaskIndex),
                                    !.updated_at = Some(now)]
    IN  Ok(updateStandaloneTaskInState(s, taskIndex, updatedTask))

findAndRemoveStandaloneSubtask(s, taskIndex, task, id, now) ==
    removeStandaloneSubtask(s, taskIndex, task, findIndex(task.subtasks, id), now)

\* A removal that also strikes the id removed from the deps of what remains.
removeItemUnlinking(s, id, now) ==
    LET e == firstEpicHolding(s.epics, id)
        t == firstTaskHolding(s.tasks, id)
        result ==
            IF e # 0
            THEN IF s.epics[e].id = id THEN removeEpic(s, e)
                 ELSE findAndRemoveTask(s, s.epics[e], e, id, now)
            ELSE IF t # 0
            THEN IF s.tasks[t].id = id THEN removeStandaloneTask(s, t)
                 ELSE findAndRemoveStandaloneSubtask(s, t, s.tasks[t], id, now)
            ELSE Fail("Item not found", id)
        without(item) ==
            IF item.deps = None THEN item
            ELSE [item EXCEPT !.deps = Some(SelectSeq(@[1], LAMBDA d : d # id))]
        task(x) == [without(x) EXCEPT !.subtasks = [j \in 1..Len(@) |-> without(@[j])]]
        epic(x) == [without(x) EXCEPT !.tasks = [k \in 1..Len(@) |-> task(@[k])]]
    IN  IF ~result.success THEN result
        ELSE Ok([result.data EXCEPT !.epics = [i \in 1..Len(@) |-> epic(@[i])],
                                    !.tasks = [k \in 1..Len(@) |-> task(@[k])]])

removeItem(s, id, now) ==
    LET e == firstEpicHolding(s.epics, id)
        t == firstTaskHolding(s.tasks, id)
    IN  IF e # 0
        THEN IF s.epics[e].id = id THEN removeEpic(s, e)
             ELSE findAndRemoveTask(s, s.epics[e], e, id, now)
        ELSE IF t # 0
        THEN IF s.tasks[t].id = id THEN removeStandaloneTask(s, t)
             ELSE findAndRemoveStandaloneSubtask(s, t, s.tasks[t], id, now)
        ELSE Fail("Item not found", id)

\* ---------------------------------------------------------------- queries
RECURSIVE concatAll(_)
concatAll(seqs) == IF seqs = <<>> THEN <<>> ELSE Head(seqs) \o concatAll(Tail(seqs))

countCompleted(seq) == Cardinality({i \in 1..Len(seq) : seq[i].status = "completed"})

flattenEpic(epic) ==
    [type |-> "epic", id |-> epic.id, content |-> epic.content,
     priority |-> epic.priority, status |-> epic.status,
     created_at |-> epic.created_at, updated_at |-> epic.updated_at,
     completed_at |-> epic.completed_at,
     implementation_description |-> epic.implementation_description,
     notes |-> epic.notes, deps |-> epic.deps,
     epicId |-> None, epicContent |-> None, taskId |-> None, taskContent |-> None,
     depth |-> 0, hasChildren |-> Len(epic.tasks) > 0,
     childrenCount |-> Len(epic.tasks),
     completedChildrenCount |-> countCompleted(epic.tasks),
     isStandalone |-> None]

\* epic is None for a standalone Task, Some(epic) for an Epic's Task.
flattenTask(epic, task) ==
    [type |-> "task", id |-> task.id, content |-> task.content,
     priority |-> task.priority, status |-> task.status,
     created_at |-> task.created_at, updated_at |-> task.updated_at,
     completed_at |-> task.completed_at,
     implementation_description |-> task.implementation_description,
     notes |-> task.notes, deps |-> task.deps,
     epicId |-> IF epic = None THEN None ELSE Some(epic[1].id),
     epicContent |-> IF epic = None THEN None ELSE Some(epic[1].content),
     taskId |-> None, taskContent |-> None,
     depth |-> IF epic = None THEN 0 ELSE 1,
     hasChildren |-> Len(task.subtasks) > 0,
     childrenCount |-> Len(task.subtasks),
     completedChildrenCount |-> countCompleted(task.subtasks),
     isStandalone |-> Some(epic = None)]

flattenSubtask(epic, task, subtask) ==
    [type |-> "subtask", id |-> subtask.id, content |-> subtask.content,
     priority |-> subtask.priority, status |-> subtask.status,
     created_at |-> subtask.created_at, updated_at |-> subtask.updated_at,
     completed_at |-> subtask.completed_at,
     implementation_description |-> subtask.implementation_description,
     notes |-> subtask.notes, deps |-> subtask.deps,
     epicId |-> IF epic = None THEN None ELSE Some(epic[1].id),
     epicContent |-> IF epic = None THEN None ELSE Some(epic[1].content),
     taskId |-> Some(task.id), taskContent |-> Some(task.content),
     depth |-> IF epic = None THEN 1 ELSE 2,
     hasChildren |-> FALSE, childrenCount |-> 0, completedChildrenCount |-> 0,
     isStandalone |-> Some(epic = None)]

\* One Task followed by its Subtasks (the inner loops of flattenState).
flattenTaskTree(epic, task) ==
    <<flattenTask(epic, task)>> \o
    [j \in 1..Len(task.subtasks) |-> flattenSubtask(epic, task, task.subtasks[j])]

\* A flattening that lists the standalone Tasks ahead of the Epics.
flattenStateStandaloneFirst(s) ==
    concatAll([i \in 1..Len(s.tasks) |-> flattenTaskTree(None, s.tasks[i])])
    \o concatAll([i \in 1..Len(s.epics) |->
                     <<flattenEpic(s.epics[i])>> \o
                     concatAll([k \in 1..Len(s.epics[i].tasks) |->
                                   flattenTaskTree(Some(s.epics[i]), s.epics[i].tasks[k])])])

flattenState(s) ==
    concatAll([i \in 1..Len(s.epics) |->
                  <<flattenEpic(s.epics[i])>> \o
                  concatAll([k \in 1..Len(s.epics[i].tasks) |->
                                flattenTaskTree(Some(s.epics[i]), s.epics[i].tasks[k])])])
    \o concatAll([i \in 1..Len(s.tasks) |-> flattenTaskTree(None, s.tasks[i])])

\* A dependency check that takes an id resolving to no item as satisfied.
areDepsCompleteOrAbsent(item, allItems) ==
    IF item.deps = None \/ Len(item.deps[1]) = 0 THEN TRUE
    ELSE \A k \in 1..Len(item.deps[1]) :
            LET dep == findIndex(allItems, item.deps[1][k])
            IN  dep = 0 \/ allItems[dep].status = "completed"

\* A dependency check that holds whatever the dependencies are.
areDepsCompleteIgnored(item, allItems) == TRUE

areDepsComplete(item, allItems) ==
    IF item.deps = None \/ Len(item.deps[1]) = 0 THEN TRUE
    ELSE \A k \in 1..Len(item.deps[1]) :
            LET dep == findIndex(allItems, item.deps[1][k])
            IN  dep # 0 /\ allItems[dep].status = "completed"

\* A comparator that, at equal priority, puts the shallower item first.
compareNextShallowFirst(a, b, level) ==
    IF a.priority # b.priority THEN a.priority - b.priority
    ELSE IF level = "any" THEN a.depth - b.depth ELSE 0

\* The comparator getNext sorts with: negative when a sorts before b.
compareNext(a, b, level) ==
    IF a.priority # b.priority THEN a.priority - b.priority
    ELSE IF level = "any" THEN b.depth - a.depth ELSE 0

\* sorted[0] of a stable sort: the first element no other element sorts before.
sortedFirst(ready, level) ==
    IF Len(ready) = 0 THEN None
    ELSE LET best(i) == \A j \in 1..Len(ready) : compareNext(ready[j], ready[i], level) >= 0
             first == CHOOSE i \in 1..Len(ready) :
                         best(i) /\ \A j \in 1..(i - 1) : ~best(j)
         IN  Some(ready[first])

isActionable(item) == item.status = "pending" \/ item.status = "in_progress"

\* The list getNext calls filtered: actionable items of the level.
filteredItems(s, level) ==
    LET ofLevel(item) == isActionable(item) /\ (level = "any" \/ item.type = level)
    IN  SelectSeq(flattenState(s), ofLevel)

\* A ready list that takes every actionable item of the level, whatever its deps.
readyItemsUnchecked(s, level) == filteredItems(s, level)

\* The list getNext calls ready.
readyItems(s, level) ==
    LET flat == flattenState(s)
        depsDone(item) == areDepsComplete(item, flat)
    IN  SelectSeq(filteredItems(s, level), depsDone)

\* A getNext that counts the blocked items before the level filter is applied.
getNextBlockedOverall(s, level) ==
    LET ready == readyItems(s, level)
    IN  [item |-> sortedFirst(ready, level), queueDepth |-> Len(ready),
         blockedByDeps |-> Len(filteredItems(s, "any")) - Len(ready)]

getNext(s, level) ==
    LET filtered == filteredItems(s, level)
        ready == readyItems(s, level)
    IN  [item |-> sortedFirst(ready, level), queueDepth |-> Len(ready),
         blockedByDeps |-> Len(filtered) - Len(ready)]

createEmptyState == [version |-> 1, epics |-> <<>>, tasks |-> <<>>]

\* ---------------------------------------------------------------- inputs
\* Every behaviour runs one scenario, which fixes the sets the callers' inputs are
\* drawn from: "tree" varies the shape of the tree and the statuses, "errors" the
\* ids passed (resolving or not), "deps" the dependency lists and priorities,
\* "fields" the fields of an update, "lint" the dependencies among siblings.
Scenarios == {"tree", "errors", "deps", "fields", "lint"}

ContentA == "alpha content"
ContentB == "Beta content!"

CreateInput(content, priority, notes, deps) ==
    [content |-> content, priority |-> priority, notes |-> notes, deps |-> deps]

UpdateInput(content, priority, status, impl, notes, deps) ==
    [content |-> content, priority |-> priority, status |-> status,
     implementation_description |-> impl, notes |-> notes, deps |-> deps]

\* The parent ids a CreateTaskInput / CreateSubtaskInput carries.
TaskInput(input, epicId) ==
    [content |-> input.content, priority |-> input.priority, notes |-> input.notes,
     deps |-> input.deps, epicId |-> epicId]

SubtaskInput(input, epicId, taskId) ==
    [content |-> input.content, priority |-> input.priority, notes |-> input.notes,
     deps |-> input.deps, epicId |-> epicId, taskId |-> taskId]

StandaloneSubtaskInput(input, taskId) ==
    [content |-> input.content, priority |-> input.priority, notes |-> input.notes,
     deps |-> input.deps, taskId |-> taskId]

StatusInput(status) == UpdateInput(None, None, Some(status), None, None, None)

CreateInputs(scn) ==
    CASE scn \in {"tree", "errors", "lint"} -> {CreateInput(ContentA, 2, None, None)}
      [] scn = "deps" ->
            {CreateInput(ContentA, 2, None, None),
             CreateInput(ContentA, 1, None, Some(<<1>>)),
             CreateInput(ContentA, 2, None, Some(<<1, 2>>))}
      [] scn = "fields" ->
            {CreateInput(ContentA, 2, None, None),
             CreateInput(ContentB, 1, Some(<<"a note">>), Some(<<1>>))}

UpdateInputs(scn) ==
    CASE scn = "tree" -> {StatusInput("in_progress")}
      [] scn = "errors" -> {UpdateInput(None, None, None, None, None, None)}
      [] scn = "deps" ->
            {StatusInput("in_progress")}
      [] scn = "lint" ->
            {UpdateInput(None, None, None, None, None, Some(<<d>>)) : d \in 1..(MaxIds - 1)}
      [] scn = "fields" ->
            {StatusInput(st) : st \in {"pending", "in_progress", "completed", "blocked"}}
            \cup {UpdateInput(Some(ContentB), None, None, None, None, None),
                  UpdateInput(None, Some(3), None, None, None, None),
                  UpdateInput(None, None, None, Some("did it"), None, None),
                  UpdateInput(None, None, None, None, Some(<<"a note">>), None),
                  UpdateInput(None, None, None, None, None, Some(<<>>)),
                  UpdateInput(Some(ContentB), Some(3), Some("completed"), Some("did it"),
                              Some(<<"a note">>), Some(<<1>>)),
                  UpdateInput(None, None, None, None, None, None)}

\* How far the clock advances between two successive timestamp() calls: the
\* "fields" scenario tells the instants apart, the others run within one instant.
Ticks(scn) == IF scn = "fields" THEN {1} ELSE {0}

\* The entities a scenario keeps in the tree and the ids it draws.
ItemBound(scn) == IF scn = "tree" THEN MaxItems ELSE MaxItems - 1
IdBound(scn) == IF scn \in {"deps", "lint"} THEN MaxIds - 1 ELSE MaxIds

\* ---------------------------------------------------------------- state machine
VARIABLES
    scenario, \* the scenario of this behaviour
    state,    \* the State document: [version, epics, tasks]
    clock,    \* the instant timestamp() last returned
    nextId,   \* the id generateId() returns next
    removed,  \* history: the ids of the entities removeItem has deleted
    last      \* history: the operation just called, its arguments and its result

vars == <<scenario, state, clock, nextId, removed, last>>

idsOf(items) == {items[i].id : i \in 1..Len(items)}

\* The Tasks of the tree, Epic-owned and standalone, as a set.
AllTasks(s) ==
    UNION {{s.epics[i].tasks[k] : k \in 1..Len(s.epics[i].tasks)} : i \in 1..Len(s.epics)}
    \cup {s.tasks[i] : i \in 1..Len(s.tasks)}

EpicIds(s) == idsOf(s.epics)
TaskIds(s) == {task.id : task \in AllTasks(s)}
SubtaskIds(s) == UNION {idsOf(task.subtasks) : task \in AllTasks(s)}
TreeIds(s) == EpicIds(s) \cup TaskIds(s) \cup SubtaskIds(s)

\* The places of the tree: <<i, 0, 0>> is Epic i, <<i, k, 0>> its Task k and
\* <<i, k, j>> that Task's Subtask j; i = 0 stands for the standalone Tasks.
Positions(s) ==
    LET below(i, tasks) ==
            {<<i, k, 0>> : k \in 1..Len(tasks)}
            \cup UNION {{<<i, k, j>> : j \in 1..Len(tasks[k].subtasks)} : k \in 1..Len(tasks)}
    IN  {<<i, 0, 0>> : i \in 1..Len(s.epics)}
        \cup UNION {below(i, s.epics[i].tasks) : i \in 1..Len(s.epics)}
        \cup below(0, s.tasks)

ItemAt(s, pos) ==
    LET tasks == IF pos[1] = 0 THEN s.tasks ELSE s.epics[pos[1]].tasks
    IN  IF pos[2] = 0 THEN s.epics[pos[1]]
        ELSE IF pos[3] = 0 THEN tasks[pos[2]]
        ELSE tasks[pos[2]].subtasks[pos[3]]

\* An id that resolves to nothing in the tree; only the "errors" scenario passes it.
UnknownId == nextId
Unresolved == IF scenario = "errors" THEN {UnknownId} ELSE {}
Empty == IF scenario = "errors" THEN {EmptyId} ELSE {}

\* The <<epicId, taskId>> and <<epicId, taskId, subtaskId>> paths of the tree.
TaskPaths(s) ==
    {<<ItemAt(s, <<pos[1], 0, 0>>).id, ItemAt(s, pos).id>> :
        pos \in {q \in Positions(s) : q[1] # 0 /\ q[2] # 0 /\ q[3] = 0}}

SubtaskPaths(s) ==
    {<<ItemAt(s, <<pos[1], 0, 0>>).id, ItemAt(s, <<pos[1], pos[2], 0>>).id, ItemAt(s, pos).id>> :
        pos \in {q \in Positions(s) : q[1] # 0 /\ q[3] # 0}}

\* The <<taskId, subtaskId>> paths below the standalone Tasks.
StandalonePaths(s) ==
    {<<ItemAt(s, <<0, pos[2], 0>>).id, ItemAt(s, pos).id>> :
        pos \in {q \in Positions(s) : q[1] = 0 /\ q[3] # 0}}

\* The ids and paths the callers pass: those of the tree and, in the "errors"
\* scenario, every combination of ids of the right kind and of the unknown id.
EpicArgs == EpicIds(state) \cup Unresolved
AnyArgs == TreeIds(state) \cup Unresolved
TaskPathArgs ==
    IF scenario = "errors"
    THEN (EpicIds(state) \cup Unresolved) \X (TaskIds(state) \cup Unresolved)
    ELSE TaskPaths(state)
SubtaskPathArgs ==
    IF scenario = "errors"
    THEN (EpicIds(state) \cup Unresolved) \X (TaskIds(state) \cup Unresolved)
         \X (SubtaskIds(state) \cup Unresolved)
    ELSE SubtaskPaths(state)
StandaloneTaskArgs ==
    IF scenario = "errors" THEN TaskIds(state) \cup Unresolved ELSE idsOf(state.tasks)
StandalonePathArgs ==
    IF scenario = "errors"
    THEN (TaskIds(state) \cup Unresolved) \X (SubtaskIds(state) \cup Unresolved)
    ELSE StandalonePaths(state)

MayAdd ==
    nextId <= IdBound(scenario) /\ Cardinality(Positions(state)) < ItemBound(scenario)

\* A scenario grows one standalone Task and, but for "deps", one Epic, with
\* whatever they own.
MayAddEpic == scenario \in {"deps", "lint"} \/ state.epics = <<>>
MayAddStandalone == state.tasks = <<>>

\* The instants a timestamp() call may return.
Instants == {clock + d : d \in Ticks(scenario)} \cap 0..MaxTime

statuses(s) == {<<ItemAt(s, pos).id, ItemAt(s, pos).status>> : pos \in Positions(s)}

\* The ids of the entities of both trees whose status differs.
statusChanged(pre, post) ==
    IF pre = post THEN {}
    ELSE {entry[1] : entry \in statuses(post) \ statuses(pre)} \cap TreeIds(pre)

\* The place of the entity with this id, <<0, 0, 0>> if the tree has none.
placeOf(s, id) ==
    LET holding == {q \in Positions(s) : ItemAt(s, q).id = id}
    IN  IF holding # {} THEN CHOOSE q \in holding : TRUE ELSE <<0, 0, 0>>

\* The record of a call: the operation, its target id (the new id, for an add),
\* the place of the target (of the new entity, for an add), its input, the fields
\* of the value returned and the entities whose status it changed.
Called(op, id, input, result, post) ==
    [op |-> op, ok |-> result.success, id |-> id,
     at |-> LET before == placeOf(state, id)
            IN  IF before # <<0, 0, 0>> THEN before ELSE placeOf(post, id),
     input |-> input, result |-> DOMAIN result, changed |-> statusChanged(state, post)]

\* A generator that returns an id it has returned before.
generateIdRepeating(counter) == IF counter > 2 THEN 2 ELSE counter

\* generateId() joins four characters of the time and four random ones. The
\* ids it returns are taken never to repeat, and are numbered as they are drawn.
generateId(counter) == counter

\* ---------------------------------------------------------------- lintState
\* A message of the linter: kind tells which message it is, label the type
\* word it starts with, about the entity whose content it quotes, and detail
\* the number or the dependency id it ends with (0 when it has none).
Message(kind, label, item, detail) ==
    [kind |-> kind, label |-> label, about |-> item.id, content |-> item.content,
     detail |-> detail]

\* The number of elements of seq that are not completed.
countIncomplete(seq) == Cardinality({i \in 1..Len(seq) : seq[i].status # "completed"})

checkEpicCompletion(epic) ==
    IF epic.status # "completed" THEN None
    ELSE IF countIncomplete(epic.tasks) = 0 THEN None
    ELSE Some(Message("incomplete", "Epic", epic, countIncomplete(epic.tasks)))

checkTaskCompletion(task) ==
    IF task.status # "completed" THEN None
    ELSE IF countIncomplete(task.subtasks) = 0 THEN None
    ELSE Some(Message("incomplete", "Task", task, countIncomplete(task.subtasks)))

\* A suggestion that does not ask the Task to own a Subtask.
suggestTaskCompletionChildless(task) ==
    IF task.status = "completed" THEN None
    ELSE IF ~allCompleted(task.subtasks) THEN None
    ELSE Some(Message("complete it", "Task", task, 0))

suggestTaskCompletion(task) ==
    IF task.status = "completed" \/ Len(task.subtasks) = 0 THEN None
    ELSE IF ~allCompleted(task.subtasks) THEN None
    ELSE Some(Message("complete it", "Task", task, 0))

suggestEpicCompletion(epic) ==
    IF epic.status = "completed" \/ Len(epic.tasks) = 0 THEN None
    ELSE IF ~allCompleted(epic.tasks) THEN None
    ELSE Some(Message("complete it", "Epic", epic, 0))

\* A check that takes the item's own id for the id of a sibling.
checkDepsWithoutSelf(label, item, siblingIds) ==
    IF item.deps = None THEN <<>>
    ELSE LET deps == item.deps[1]
         IN  concatAll([k \in 1..Len(deps) |->
                 IF deps[k] \notin siblingIds
                 THEN <<Message("invalid dep", label, item, deps[k])>>
                 ELSE <<>>])

\* The loop shared by checkEpicDeps, checkTaskDeps and checkSubtaskDeps.
checkDeps(label, item, siblingIds) ==
    IF item.deps = None THEN <<>>
    ELSE LET deps == item.deps[1]
         IN  concatAll([k \in 1..Len(deps) |->
                 IF deps[k] = item.id
                 THEN <<Message("depends on itself", label, item, 0)>>
                 ELSE IF deps[k] \notin siblingIds
                 THEN <<Message("invalid dep", label, item, deps[k])>>
                 ELSE <<>>])

checkEpicDeps(epic, allEpicIds) == checkDeps("Epic", epic, allEpicIds)
checkTaskDeps(task, epicTaskIds) == checkDeps("Task", task, epicTaskIds)
checkSubtaskDeps(subtask, taskSubtaskIds) == checkDeps("Subtask", subtask, taskSubtaskIds)

\* item.deps ?? []
depsOrEmpty(item) == IF item.deps = None THEN <<>> ELSE item.deps[1]

\* The Map checkCycles builds, read with depsMap.get(depId) ?? [].
depsMapGet(items, depId) ==
    IF \E n \in 1..Len(items) : items[n].id = depId
    THEN depsOrEmpty(items[CHOOSE n \in 1..Len(items) :
                              items[n].id = depId
                              /\ \A m \in (n + 1)..Len(items) : items[m].id # depId])
    ELSE <<>>

\* A detection that finds an id only among its own dependencies.
detectCycleSelfOnly(id, deps, items, visited) ==
    \E k \in 1..Len(deps) : deps[k] = id

\* A traversal that never takes an id off the visited set: an id reached twice,
\* along whatever paths, counts as a cycle.
RECURSIVE visitKeeping(_, _, _, _)
visitKeeping(id, deps, items, visited) ==
    IF id \in visited THEN [found |-> TRUE, visited |-> visited]
    ELSE LET RECURSIVE each(_, _)
             each(k, seen) ==
                 IF k > Len(deps) THEN [found |-> FALSE, visited |-> seen]
                 ELSE LET below == visitKeeping(deps[k], depsMapGet(items, deps[k]), items, seen)
                      IN  IF below.found THEN below ELSE each(k + 1, below.visited)
         IN  each(1, visited \cup {id})

detectCycleKeepingVisited(id, deps, items, visited) ==
    visitKeeping(id, deps, items, visited).found

\* visited holds the ids on the path of calls; a call that returns false
\* leaves it as it found it.
RECURSIVE detectCycle(_, _, _, _)
detectCycle(id, deps, items, visited) ==
    IF id \in visited THEN TRUE
    ELSE \E k \in 1..Len(deps) :
            detectCycle(deps[k], depsMapGet(items, deps[k]), items, visited \cup {id})

\* The calls of a detection that never records the id it is at, cut off once
\* they nest deeper than any path of distinct ids could.
RECURSIVE detectCycleDepthUnmarked(_, _, _, _)
detectCycleDepthUnmarked(id, deps, items, visited) ==
    IF Cardinality(visited) > Len(items) + 2 THEN 1
    ELSE LET marked == visited \cup {[call |-> Cardinality(visited)]}
             below == {detectCycleDepthUnmarked(deps[k], depsMapGet(items, deps[k]),
                                                items, marked) : k \in 1..Len(deps)}
         IN  1 + (IF below = {} THEN 0 ELSE CHOOSE d \in below : \A e \in below : e <= d)

\* How deep the calls of detectCycle nest when no call returns early: one for
\* the call itself, plus the deepest of the calls its loop makes.
RECURSIVE detectCycleDepth(_, _, _, _)
detectCycleDepth(id, deps, items, visited) ==
    IF id \in visited THEN 1
    ELSE LET below == {detectCycleDepth(deps[k], depsMapGet(items, deps[k]),
                                        items, visited \cup {id}) : k \in 1..Len(deps)}
         IN  1 + (IF below = {} THEN 0 ELSE CHOOSE d \in below : \A e \in below : e <= d)

checkCycles(items, typeLabel) ==
    concatAll([n \in 1..Len(items) |->
        IF items[n].deps = None \/ Len(depsOrEmpty(items[n])) = 0 THEN <<>>
        ELSE IF detectCycle(items[n].id, items[n].deps[1], items, {})
        THEN <<Message("circular dependency", typeLabel, items[n], 0)>>
        ELSE <<>>])

\* An optional message as the list pushed onto warnings or suggestions.
pushed(message) == IF message = None THEN <<>> ELSE <<message[1]>>

\* What the loop of lintEpic pushes onto warnings for one Task.
lintTaskWarnings(epic, task) ==
    pushed(checkTaskCompletion(task))
    \o checkTaskDeps(task, idsOf(epic.tasks))
    \o concatAll([j \in 1..Len(task.subtasks) |->
                     checkSubtaskDeps(task.subtasks[j], idsOf(task.subtasks))])
    \o checkCycles(task.subtasks, "Subtask")

lintEpic(epic) ==
    [warnings |->
        pushed(checkEpicCompletion(epic))
        \o concatAll([k \in 1..Len(epic.tasks) |-> lintTaskWarnings(epic, epic.tasks[k])])
        \o checkCycles(epic.tasks, "Task"),
     suggestions |->
        concatAll([k \in 1..Len(epic.tasks) |-> pushed(suggestTaskCompletion(epic.tasks[k]))])
        \o pushed(suggestEpicCompletion(epic))]

lintState(s) ==
    [warnings |->
        concatAll([i \in 1..Len(s.epics) |->
                      checkEpicDeps(s.epics[i], idsOf(s.epics))
                      \o lintEpic(s.epics[i]).warnings])
        \o checkCycles(s.epics, "Epic"),
     suggestions |->
        concatAll([i \in 1..Len(s.epics) |-> lintEpic(s.epics[i]).suggestions])]

\* ---------------------------------------------------------------- validateState
MIN_DESCRIPTION_LENGTH == 10

\* An issue of the schema: the path of the field and what is wrong with it.
Issue(path, code) == [path |-> path, code |-> code]

\* A position in an array as a segment of a path.
Index(n) == <<"0", "1", "2", "3">>[n]

\* z.number().int().min(1).max(5). A raw priority is absent or Some(h), the
\* number h / 2, so that an odd h is a number that is no integer.
PrioritySchema(path, priority) ==
    IF priority = None THEN <<Issue(path, "invalid_type")>>
    ELSE (IF priority[1] % 2 # 0 THEN <<Issue(path, "not an integer")>> ELSE <<>>)
         \o (IF priority[1] < 2 * 1 THEN <<Issue(path, "too_small")>> ELSE <<>>)
         \o (IF priority[1] > 2 * 5 THEN <<Issue(path, "too_big")>> ELSE <<>>)

\* z.enum([...]).default('pending'): an absent status is no issue.
StatusSchema(path, status) ==
    IF status = None \/ status[1] \in {"pending", "in_progress", "completed", "blocked"}
    THEN <<>>
    ELSE <<Issue(path, "invalid_enum_value")>>

\* The fields SubtaskSchema, TaskSchema and EpicSchema have in common. The
\* timestamps of the documents tried are well formed.
EntityFields(path, raw) ==
    (IF raw.id = EmptyId THEN <<Issue(path \o <<"id">>, "too_small")>> ELSE <<>>)
    \o (IF Len(raw.content) < MIN_DESCRIPTION_LENGTH
        THEN <<Issue(path \o <<"content">>, "content must be at least 10 characters")>>
        ELSE <<>>)
    \o PrioritySchema(path \o <<"priority">>, raw.priority)
    \o StatusSchema(path \o <<"status">>, raw.status)

SubtaskSchema(path, raw) == EntityFields(path, raw)

TaskSchema(path, raw) ==
    EntityFields(path, raw)
    \o concatAll([j \in 1..Len(raw.subtasks) |->
                     SubtaskSchema(path \o <<"subtasks", Index(j)>>, raw.subtasks[j])])

EpicSchema(path, raw) ==
    EntityFields(path, raw)
    \o concatAll([k \in 1..Len(raw.tasks) |->
                     TaskSchema(path \o <<"tasks", Index(k)>>, raw.tasks[k])])

\* The raw value that is no object at all.
NotAnObject == None

\* StateSchema.safeParse(raw).error.issues, empty when the parse succeeds.
StateSchema(raw) ==
    IF raw = NotAnObject THEN <<Issue(<<>>, "invalid_type")>>
    ELSE (IF raw.version = Some(1) THEN <<>> ELSE <<Issue(<<"version">>, "invalid_literal")>>)
         \o concatAll([i \in 1..Len(raw.epics) |->
                          EpicSchema(<<"epics", Index(i)>>, raw.epics[i])])

\* StateSchema.safeParse(raw).data: the numbers as numbers, the defaults filled in.
parsed(raw) ==
    LET fields(entity) ==
            [id |-> entity.id, content |-> entity.content,
             priority |-> entity.priority[1] \div 2,
             status |-> IF entity.status = None THEN "pending" ELSE entity.status[1],
             created_at |-> entity.created_at]
        task(t) == fields(t) @@
                   [subtasks |-> [j \in 1..Len(t.subtasks) |-> fields(t.subtasks[j])]]
        epic(e) == fields(e) @@ [tasks |-> [k \in 1..Len(e.tasks) |-> task(e.tasks[k])]]
    IN  [version |-> 1, epics |-> [i \in 1..Len(raw.epics) |-> epic(raw.epics[i])]]

\* `${path}: ${issue.message}` with path.join('.') or '(root)'.
formatIssue(issue) ==
    [path |-> IF Len(issue.path) # 0 THEN issue.path ELSE <<"(root)">>,
     message |-> issue.code]

\* A validation that reports the first issue only.
validateStateFirstIssue(raw) ==
    LET issues == StateSchema(raw)
    IN  IF issues = <<>> THEN [valid |-> TRUE, state |-> parsed(raw)]
        ELSE [valid |-> FALSE, errors |-> <<formatIssue(issues[1])>>]

validateState(raw) ==
    LET issues == StateSchema(raw)
    IN  IF issues = <<>> THEN [valid |-> TRUE, state |-> parsed(raw)]
        ELSE [valid |-> FALSE, errors |-> [n \in 1..Len(issues) |-> formatIssue(issues[n])]]

\* The raw documents validated: contents of 5, 9, 10 and 13 characters,
\* priorities 0, 1, 2.5, 5 and 6, statuses of the enum, outside it and absent,
\* an empty id; versions 1, 2 and absent; up to three levels of nesting.
Short == <<"S", "h", "o", "r", "t">>
NineChars == <<"N", "i", "n", "e", " ", "c", "h", "a", "r">>
TenChars == <<"T", "e", "n", " ", "c", "h", "a", "r", "s", "!">>
ThirteenChars == <<"a", "l", "p", "h", "a", " ", "c", "o", "n", "t", "e", "n", "t">>

RawFields ==
    LET good == [id |-> 1, content |-> TenChars, priority |-> Some(2),
                 status |-> Some("pending"), created_at |-> 0]
    IN  {good,
         [good EXCEPT !.content = ThirteenChars, !.priority = Some(10), !.status = None],
         [good EXCEPT !.content = Short],
         [good EXCEPT !.content = NineChars],
         [good EXCEPT !.priority = Some(0)],
         [good EXCEPT !.priority = Some(12)],
         [good EXCEPT !.priority = Some(5)],
         [good EXCEPT !.status = Some("done")],
         [good EXCEPT !.id = EmptyId],
         [good EXCEPT !.content = Short, !.priority = Some(12), !.status = Some("done")]}

RawTasks ==
    {f @@ [subtasks |-> <<>>] : f \in RawFields}
    \cup {f @@ [subtasks |-> <<g>>] : f \in RawFields, g \in RawFields}

RawEpics ==
    {f @@ [tasks |-> <<>>] : f \in RawFields}
    \cup {f @@ [tasks |-> <<t>>] : f \in RawFields, t \in RawTasks}

RawDocuments ==
    {NotAnObject}
    \cup {[version |-> v, epics |-> epics] :
            v \in {None, Some(1), Some(2)},
            epics \in {<<>>} \cup {<<e>> : e \in RawEpics}
                     \cup {<<f @@ [tasks |-> <<>>], g @@ [tasks |-> <<>>]>> :
                             f \in RawFields, g \in RawFields}}

Init ==
    /\ scenario \in Scenarios
    /\ state = createEmptyState
    /\ clock = 0
    /\ nextId = 1
    /\ removed = {}
    /\ last = [op |-> "createEmptyState", ok |-> TRUE, id |-> 0, at |-> <<0, 0, 0>>,
               input |-> None, result |-> {}, changed |-> {}]

AddEpic ==
    \E input \in CreateInputs(scenario), now \in Instants :
        LET result == addEpic(state, input, generateId(nextId), now)
        IN  /\ MayAdd
            /\ MayAddEpic
            /\ state' = result.data.state
            /\ clock' = now
            /\ nextId' = nextId + 1
            /\ last' = Called("addEpic", generateId(nextId), input, result, state')
            /\ UNCHANGED <<scenario, removed>>

\* generateId() is called before the Epic is looked up: a failure uses up an id.
AddTask ==
    \E epicId \in {None} \cup {Some(e) : e \in EpicArgs \cup Empty},
       input \in CreateInputs(scenario), now \in Instants :
        LET result == addTask(state, TaskInput(input, epicId), generateId(nextId), now)
        IN  /\ MayAdd
            /\ epicId \in {None, Some(EmptyId)} => MayAddStandalone
            /\ state' = IF result.success THEN result.data.state ELSE state
            /\ clock' = now
            /\ nextId' = nextId + 1
            /\ last' = Called("addTask", generateId(nextId), input, result, state')
            /\ UNCHANGED <<scenario, removed>>

\* A failed call returns before it reads the clock or draws an id.
AddSubtask ==
    \E path \in TaskPathArgs, input \in CreateInputs(scenario), now \in Instants :
        LET result == addSubtask(state, SubtaskInput(input, path[1], path[2]),
                                 generateId(nextId), now)
        IN  /\ MayAdd
            /\ state' = IF result.success THEN result.data.state ELSE state
            /\ clock' = IF result.success THEN now ELSE clock
            /\ nextId' = IF result.success THEN nextId + 1 ELSE nextId
            /\ last' = Called("addSubtask", generateId(nextId), input, result, state')
            /\ UNCHANGED <<scenario, removed>>

AddStandaloneSubtask ==
    \E taskId \in StandaloneTaskArgs,
       input \in CreateInputs(scenario), now \in Instants :
        LET result == addStandaloneSubtask(state, StandaloneSubtaskInput(input, taskId),
                                           generateId(nextId), now)
        IN  /\ MayAdd
            /\ state' = IF result.success THEN result.data.state ELSE state
            /\ clock' = IF result.success THEN now ELSE clock
            /\ nextId' = IF result.success THEN nextId + 1 ELSE nextId
            /\ last' = Called("addStandaloneSubtask", generateId(nextId), input, result, state')
            /\ UNCHANGED <<scenario, removed>>

\* What every update, markComplete and removeItem call leaves behind.
Returned(op, id, input, now, result) ==
    /\ state' = IF result.success THEN result.data ELSE state
    /\ clock' = IF result.success THEN now ELSE clock
    /\ last' = Called(op, id, input, result, state')
    /\ UNCHANGED <<scenario, nextId>>

UpdateEpic ==
    \E epicId \in EpicArgs,
       input \in UpdateInputs(scenario), now \in Instants :
        /\ Returned("updateEpic", epicId, input, now,
                    updateEpic(state, epicId, input, now))
        /\ UNCHANGED removed

UpdateTask ==
    \E path \in TaskPathArgs, input \in UpdateInputs(scenario), now \in Instants :
        /\ Returned("updateTask", path[2], input, now,
                    updateTask(state, path[1], path[2], input, now))
        /\ UNCHANGED removed

UpdateSubtask ==
    \E path \in SubtaskPathArgs, input \in UpdateInputs(scenario), now \in Instants :
        /\ Returned("updateSubtask", path[3], input, now,
                    updateSubtask(state, path[1], path[2], path[3], input, now))
        /\ UNCHANGED removed

UpdateStandaloneTask ==
    \E taskId \in StandaloneTaskArgs,
       input \in UpdateInputs(scenario), now \in Instants :
        /\ Returned("updateStandaloneTask", taskId, input, now,
                    updateStandaloneTask(state, taskId, input, now))
        /\ UNCHANGED removed

UpdateStandaloneSubtask ==
    \E path \in StandalonePathArgs, input \in UpdateInputs(scenario), now \in Instants :
        /\ Returned("updateStandaloneSubtask", path[2], input, now,
                    updateStandaloneSubtask(state, path[1], path[2], input, now))
        /\ UNCHANGED removed

\* The instants three successive timestamp() calls may return.
InstantTriples ==
    {ts \in {<<t, t + d, t + d + e>> :
                t \in Instants, d \in Ticks(scenario), e \in Ticks(scenario)} :
        ts[3] <= MaxTime}

MarkComplete ==
    \E id \in AnyArgs, ts \in InstantTriples :
        /\ Returned("markComplete", id, CompletedInput, ts[3],
                    markComplete(state, id, ts))
        /\ UNCHANGED removed

RemoveItem ==
    \E id \in AnyArgs, now \in Instants :
        LET result == removeItem(state, id, now)
        IN  /\ Returned("removeItem", id, None, now, result)
            /\ removed' = IF result.success
                          THEN removed \cup (TreeIds(state) \ TreeIds(result.data))
                          ELSE removed

Next ==
    \/ AddEpic
    \/ AddTask
    \/ AddSubtask
    \/ AddStandaloneSubtask
    \/ UpdateEpic
    \/ UpdateTask
    \/ UpdateSubtask
    \/ UpdateStandaloneTask
    \/ UpdateStandaloneSubtask
    \/ MarkComplete
    \/ RemoveItem

Spec == Init /\ [][Next]_vars

InitTree == Init /\ scenario = "tree"
InitErrors == Init /\ scenario = "errors"
InitDeps == Init /\ scenario = "deps"
InitFields == Init /\ scenario = "fields"
InitLint == Init /\ scenario = "lint"
SpecTree == InitTree /\ [][Next]_vars
SpecErrors == InitErrors /\ [][Next]_vars
SpecDeps == InitDeps /\ [][Next]_vars
SpecFields == InitFields /\ [][Next]_vars
SpecLint == InitLint /\ [][Next]_vars

\* validateState is given a raw document and returns its verdict.
InitValidate ==
    /\ scenario = "validate"
    /\ state \in RawDocuments
    /\ clock = 0
    /\ nextId = 1
    /\ removed = {}
    /\ last = [op |-> "none", ok |-> TRUE, id |-> 0, at |-> <<0, 0, 0>>,
               input |-> None, result |-> {}, changed |-> {}]

ValidateState ==
    /\ last.op = "none"
    /\ LET result == validateState(state)
       IN  last' = [op |-> "validateState", ok |-> result.valid, id |-> 0,
                    at |-> <<0, 0, 0>>, input |-> None, result |-> result, changed |-> {}]
    /\ UNCHANGED <<scenario, state, clock, nextId, removed>>

NextValidate == ValidateState
SpecValidate == InitValidate /\ [][NextValidate]_vars

\* lintState is given a document of MaxIds Epics whose dependency lists are
\* absent, empty, or name one or two of the Epics, and returns its messages.
DepLists ==
    {None, Some(<<>>)}
    \cup {Some(<<a>>) : a \in 1..MaxIds}
    \cup {Some(<<pair[1], pair[2]>>) : pair \in {q \in (1..MaxIds) \X (1..MaxIds) : q[1] < q[2]}}

DependencyGraphs ==
    {[createEmptyState EXCEPT
         !.epics = [i \in 1..MaxIds |->
                       NewEpic(generateId(i), CreateInput(ContentA, 2, None, deps[i]), 0)]] :
        deps \in [1..MaxIds -> DepLists]}

InitCycles ==
    /\ scenario = "cycles"
    /\ state \in DependencyGraphs
    /\ clock = 0
    /\ nextId = MaxIds + 1
    /\ removed = {}
    /\ last = [op |-> "none", ok |-> TRUE, id |-> 0, at |-> <<0, 0, 0>>,
               input |-> None, result |-> {}, changed |-> {}]

LintState ==
    /\ last.op = "none"
    /\ LET result == lintState(state)
       IN  last' = [op |-> "lintState", ok |-> result.warnings = <<>>, id |-> 0,
                    at |-> <<0, 0, 0>>, input |-> None, result |-> result, changed |-> {}]
    /\ UNCHANGED <<scenario, state, clock, nextId, removed>>

NextCycles == LintState
SpecCycles == InitCycles /\ [][NextCycles]_vars

\* ---------------------------------------------------------------- cascade
SubtaskPositions(s) == {q \in Positions(s) : q[3] # 0}
everyCompleted(items) == \A i \in 1..Len(items) : items[i].status = "completed"
MarkedAt(item, now) == item.status = "completed" /\ item.completed_at = Some(now)

\* The place of the entity with this id.
PositionOf(s, id) == CHOOSE q \in Positions(s) : ItemAt(s, q).id = id

\* The places a place owns, itself included, and the places that own it.
Subtree(s, p) ==
    {q \in Positions(s) :
        /\ q[1] = p[1]
        /\ p[2] # 0 => q[2] = p[2]
        /\ p[3] # 0 => q[3] = p[3]}
Ancestors(p) ==
    (IF p[1] # 0 /\ p[2] # 0 THEN {<<p[1], 0, 0>>} ELSE {})
    \cup (IF p[3] # 0 THEN {<<p[1], p[2], 0>>} ELSE {})

\* The attributes of an entity: every field but the list of what it owns.
Attributes ==
    {"id", "content", "priority", "status", "created_at", "updated_at", "completed_at",
     "implementation_description", "notes", "deps"}
SameBut(a, b, fields) ==
    DOMAIN a = DOMAIN b /\ \A f \in Attributes \ fields : a[f] = b[f]

\* The instants the timestamp() calls of one operation may return, whether
\* they fall within one instant or apart.
CallInstants == {<<clock, clock, clock>>, <<clock + 1, clock + 2, clock + 3>>}

\* C1: a successful markComplete of a Subtask of Task T leaves the Subtask
\* completed; if T was not completed and all its Subtasks now are, T is
\* completed; if T sits in an Epic E all of whose Tasks are then completed, E
\* is completed; each item so marked carries completed_at, the instant of
\* its own update. A standalone T is completed by the same step.
C1_CascadeUp ==
    \A pos \in SubtaskPositions(state), ts \in CallInstants :
        LET result == markComplete(state, ItemAt(state, pos).id, ts)
            taskPos == <<pos[1], pos[2], 0>>
            epicPos == <<pos[1], 0, 0>>
        IN  result.success =>
                LET post == result.data
                    taskDone ==
                        /\ ItemAt(state, taskPos).status # "completed"
                        /\ everyCompleted(ItemAt(post, taskPos).subtasks)
                    epicDone ==
                        /\ pos[1] # 0
                        /\ taskDone
                        /\ everyCompleted(ItemAt(post, epicPos).tasks)
                IN  /\ MarkedAt(ItemAt(post, pos), ts[1])
                    /\ taskDone => MarkedAt(ItemAt(post, taskPos), ts[2])
                    /\ epicDone => MarkedAt(ItemAt(post, epicPos), ts[3])

\* markComplete of a Subtask has just completed its Task and its Epic with it.
C1_Witness ==
    /\ last.op = "markComplete" /\ last.ok
    /\ last.id \in SubtaskIds(state)
    /\ LET pos == PositionOf(state, last.id)
       IN  /\ pos[1] # 0
           /\ ItemAt(state, <<pos[1], pos[2], 0>>).id \in last.changed
           /\ ItemAt(state, <<pos[1], 0, 0>>).id \in last.changed
           /\ ItemAt(state, <<pos[1], 0, 0>>).completed_at # None

\* The entities other than id that markComplete(id) gave a status or a
\* completed_at they did not have: those the cascade set.
setByCascade(pre, post, id) ==
    {q \in Positions(pre) :
        /\ ItemAt(pre, q).id # id
        /\ \/ ItemAt(post, q).status # ItemAt(pre, q).status
           \/ ItemAt(post, q).completed_at # ItemAt(pre, q).completed_at}

\* C2: the cascade of markComplete stops at the first level whose siblings are
\* not all completed: it sets no Task while one of its Subtasks is not completed
\* and no Epic while one of its Tasks is not completed; what it sets is an
\* ancestor of the item, set to completed.
C2_CascadeStops ==
    \A id \in TreeIds(state), ts \in CallInstants :
        LET result == markComplete(state, id, ts)
            pos == PositionOf(state, id)
        IN  result.success =>
                \A q \in setByCascade(state, result.data, id) :
                    LET item == ItemAt(result.data, q)
                    IN  /\ item.status = "completed"
                        /\ q[3] = 0 /\ q[1] = pos[1] /\ q[2] \in {0, pos[2]}
                        /\ IF q[2] = 0 THEN everyCompleted(item.tasks)
                                       ELSE everyCompleted(item.subtasks)

\* markComplete of the last open Subtask of a Task has completed the Task and
\* left the Epic as it was, a sibling Task being not completed.
C2_Witness ==
    /\ last.op = "markComplete" /\ last.ok
    /\ last.id \in SubtaskIds(state)
    /\ LET pos == PositionOf(state, last.id)
       IN  /\ pos[1] # 0
           /\ ItemAt(state, <<pos[1], pos[2], 0>>).id \in last.changed
           /\ ItemAt(state, <<pos[1], 0, 0>>).id \notin last.changed
           /\ ItemAt(state, <<pos[1], 0, 0>>).status # "completed"
           /\ ~everyCompleted(ItemAt(state, <<pos[1], 0, 0>>).tasks)

\* ---------------------------------------------------------------- dependencies
Levels == {"any", "epic", "task", "subtask"}
typeAt(pos) == IF pos[2] = 0 THEN "epic" ELSE IF pos[3] = 0 THEN "task" ELSE "subtask"
depsAt(s, pos) ==
    LET deps == ItemAt(s, pos).deps
    IN  IF deps = None THEN {} ELSE {deps[1][k] : k \in 1..Len(deps[1])}

\* The dependency id resolves, somewhere in the tree, to a completed entity.
Satisfied(s, depId) ==
    \E q \in Positions(s) : ItemAt(s, q).id = depId /\ ItemAt(s, q).status = "completed"

OfLevel(s, pos, level) ==
    /\ ItemAt(s, pos).status \in {"pending", "in_progress"}
    /\ level = "any" \/ typeAt(pos) = level

\* The places of the ready set of a level, read off the tree.
ReadyAt(s, level) ==
    {q \in Positions(s) : OfLevel(s, q, level) /\ \A d \in depsAt(s, q) : Satisfied(s, d)}

\* C3: for every state and level, the item getNext returns and the items
\* queueDepth counts are exactly the pending or in_progress items of the level
\* whose every dependency id resolves, over the whole tree, to a completed item;
\* an id resolving to nothing or to an item not completed keeps the item out.
C3_ReadyDepsCompleted ==
    \A level \in Levels :
        LET next == getNext(state, level)
            readyIds == {ItemAt(state, q).id : q \in ReadyAt(state, level)}
        IN  /\ idsOf(readyItems(state, level)) = readyIds
            /\ next.queueDepth = Cardinality(ReadyAt(state, level))
            /\ next.item # None => next.item[1].id \in readyIds
            /\ next.item = None => readyIds = {}

\* getNext returns an item whose dependencies are all completed while another
\* actionable item is held back by a dependency that is not completed.
C3_Witness ==
    LET next == getNext(state, "any")
    IN  /\ next.item # None
        /\ next.item[1].deps # None
        /\ next.item[1].deps[1] # <<>>
        /\ next.blockedByDeps > 0
        /\ \E q \in Positions(state) :
              /\ OfLevel(state, q, "any")
              /\ \E d \in depsAt(state, q) : d \in TreeIds(state) /\ ~Satisfied(state, d)

\* The pairs of Epic places <<E1, E2>> with E2.deps = [E1.id] and E2 actionable.
GatedEpics(s) ==
    {pair \in (1..Len(s.epics)) \X (1..Len(s.epics)) :
        /\ pair[1] # pair[2]
        /\ s.epics[pair[2]].deps = Some(<<s.epics[pair[1]].id>>)
        /\ s.epics[pair[2]].status \in {"pending", "in_progress"}}

\* Epic i is ready and no other ready Epic sorts before it.
RanksFirst(s, i) ==
    /\ <<i, 0, 0>> \in ReadyAt(s, "epic")
    /\ \A q \in ReadyAt(s, "epic") \ {<<i, 0, 0>>} :
          \/ s.epics[i].priority < s.epics[q[1]].priority
          \/ s.epics[i].priority = s.epics[q[1]].priority /\ i < q[1]

\* The actionable Epics that getNext counts as blocked by their dependencies.
BlockedEpics(s) == {q \in Positions(s) : OfLevel(s, q, "epic")} \ ReadyAt(s, "epic")

\* C4: for Epics E1, E2 with E2.deps = [E1.id], E2 actionable: while E1 is not
\* completed, getNext at level epic does not return E2 and counts it in
\* blockedByDeps; after a successful markComplete(E1), E2 is ready, is not
\* counted in blockedByDeps, and is returned when it ranks first among the
\* ready Epics.
C4_DependencyGate ==
    \A pair \in GatedEpics(state) :
        LET E1 == state.epics[pair[1]]
            E2 == state.epics[pair[2]]
            before == getNext(state, "epic")
        IN  E1.status # "completed" =>
                /\ before.item # None => before.item[1].id # E2.id
                /\ E2.id \notin idsOf(readyItems(state, "epic"))
                /\ <<pair[2], 0, 0>> \in BlockedEpics(state)
                /\ before.blockedByDeps = Cardinality(BlockedEpics(state))
                /\ \A ts \in CallInstants :
                      LET result == markComplete(state, E1.id, ts)
                      IN  result.success =>
                            LET after == getNext(result.data, "epic")
                            IN  /\ E2.id \in idsOf(readyItems(result.data, "epic"))
                                /\ <<pair[2], 0, 0>> \notin BlockedEpics(result.data)
                                /\ after.blockedByDeps =
                                       Cardinality(BlockedEpics(result.data))
                                /\ after.blockedByDeps < before.blockedByDeps
                                /\ RanksFirst(result.data, pair[2]) =>
                                       after.item = Some(flattenEpic(result.data.epics[pair[2]]))

\* markComplete(E1) has just completed E1, and getNext at level epic returns
\* E2, whose only dependency is E1, ahead of another ready Epic.
C4_Witness ==
    /\ last.op = "markComplete" /\ last.ok
    /\ last.id \in last.changed
    /\ \E pair \in GatedEpics(state) :
          /\ state.epics[pair[1]].id = last.id
          /\ getNext(state, "epic").item = Some(flattenEpic(state.epics[pair[2]]))
          /\ getNext(state, "epic").queueDepth > 1

\* ---------------------------------------------------------------- remove
\* Where a place that survives the removal of place p sits afterwards: the
\* later siblings of p, with what they own, move up by one.
afterRemoval(p, q) ==
    IF p[2] = 0 THEN (IF q[1] > p[1] THEN <<q[1] - 1, q[2], q[3]>> ELSE q)
    ELSE IF q[1] # p[1] THEN q
    ELSE IF p[3] = 0 THEN (IF q[2] > p[2] THEN <<q[1], q[2] - 1, q[3]>> ELSE q)
    ELSE IF q[2] = p[2] /\ q[3] > p[3] THEN <<q[1], q[2], q[3] - 1>> ELSE q

\* The tree, and the tree with one more Epic or one more standalone Task.
Grown ==
    LET input == CreateInput(ContentB, 3, None, None)
    IN  {state,
         addEpic(state, input, nextId, clock).data.state,
         addTask(state, TaskInput(input, None), nextId, clock).data.state}

\* C5: removeItem(id), id in the tree, returns the tree without the item
\* and what it owns: every other entity is there, in the same order, with its
\* attributes as they were but for updated_at of the item's ancestors; the
\* Epic whose last Task is removed stays, its Task list empty, its status
\* the same.
C5_RemoveItemFrame ==
    \A pre \in Grown, now \in {clock, clock + 1} :
        \A p \in Positions(pre) :
            LET result == removeItem(pre, ItemAt(pre, p).id, now)
                kept == Positions(pre) \ Subtree(pre, p)
            IN  /\ result.success
                /\ DOMAIN result = {"success", "data"}
                /\ LET post == result.data
                   IN  /\ DOMAIN post = DOMAIN pre
                       /\ post.version = pre.version
                       /\ Positions(post) = {afterRemoval(p, q) : q \in kept}
                       /\ \A q \in kept :
                             SameBut(ItemAt(post, afterRemoval(p, q)), ItemAt(pre, q),
                                     IF q \in Ancestors(p) THEN {"updated_at"} ELSE {})
                       /\ (p[1] # 0 /\ p[2] # 0 /\ p[3] = 0
                             /\ Len(pre.epics[p[1]].tasks) = 1) =>
                             /\ post.epics[p[1]].tasks = <<>>
                             /\ post.epics[p[1]].status = pre.epics[p[1]].status

\* removeItem has just removed the only Task of a completed Epic, with the
\* Subtask it owned, and another entity of the tree is still there.
C5_Witness ==
    /\ last.op = "removeItem" /\ last.ok
    /\ last.at = <<1, 1, 0>>
    /\ Cardinality(removed) > 1
    /\ state.epics # <<>>
    /\ state.epics[1].tasks = <<>>
    /\ state.epics[1].status = "completed"
    /\ state.tasks # <<>>

\* ---------------------------------------------------------------- failures
\* The ids a caller may hold: those issued so far and one never issued.
KnownIds == 1..nextId

ErrorMessages ==
    {"Epic not found", "Task not found", "Subtask not found",
     "Standalone task not found", "Item not found"}

\* A failure value: no state, an error string naming the id.
IsFailure(result) ==
    /\ ~result.success
    /\ DOMAIN result = {"success", "error"}
    /\ result.error[1] \in ErrorMessages
    /\ result.error[2] \in KnownIds

\* C6: every operation called with an id that does not resolve (an Epic id for
\* addTask; a path of ids one of which is not found where the path says, for
\* addSubtask and the updates; an id found nowhere in the tree, for markComplete
\* and removeItem) returns a failure value with an error string and no state.
\* The operations build their result from copies: the state passed in is the
\* state the caller still holds.
C6_UnresolvedIdFails ==
    \A create \in CreateInputs(scenario), update \in UpdateInputs(scenario) :
        /\ \A e \in KnownIds \ EpicIds(state) :
              /\ IsFailure(addTask(state, TaskInput(create, Some(e)), nextId, clock))
              /\ IsFailure(updateEpic(state, e, update, clock))
        /\ \A path \in (KnownIds \X KnownIds) \ TaskPaths(state) :
              /\ IsFailure(addSubtask(state, SubtaskInput(create, path[1], path[2]),
                                      nextId, clock))
              /\ IsFailure(updateTask(state, path[1], path[2], update, clock))
        /\ \A path \in (KnownIds \X KnownIds \X KnownIds) \ SubtaskPaths(state) :
              IsFailure(updateSubtask(state, path[1], path[2], path[3], update, clock))
        /\ \A t \in KnownIds \ idsOf(state.tasks) :
              /\ IsFailure(addStandaloneSubtask(state, StandaloneSubtaskInput(create, t),
                                                nextId, clock))
              /\ IsFailure(updateStandaloneTask(state, t, update, clock))
        /\ \A path \in (KnownIds \X KnownIds) \ StandalonePaths(state) :
              IsFailure(updateStandaloneSubtask(state, path[1], path[2], update, clock))
        /\ \A id \in KnownIds \ TreeIds(state) :
              /\ IsFailure(markComplete(state, id, <<clock, clock, clock>>))
              /\ IsFailure(removeItem(state, id, clock))

\* updateSubtask has just failed on a Subtask of the tree addressed through a
\* Task that does not own it, after a removal left an id that resolves nowhere.
C6_Witness ==
    /\ last.op = "updateSubtask" /\ ~last.ok
    /\ last.result = {"success", "error"}
    /\ last.id \in SubtaskIds(state)
    /\ removed # {}

\* ---------------------------------------------------------------- add
\* Payloads of every shape: with and without notes and dependencies.
Payloads ==
    {CreateInput(ContentA, 2, None, None),
     CreateInput(ContentB, 5, Some(<<"a note">>), Some(<<1, 2>>))}

\* What a successful add leaves: one more place, newPos, the last of its
\* parent's list, holding the entity returned, which is pending, owns nothing
\* and carries the payload; every entity that was there, at its place,
\* with its attributes but for updated_at of the new entity's ancestors.
Added(pre, result, entity, newPos, input, now) ==
    /\ result.success
    /\ LET post == result.data.state
       IN  /\ newPos \notin Positions(pre)
           /\ Positions(post) = Positions(pre) \cup {newPos}
           /\ ItemAt(post, newPos) = entity
           /\ entity.id = nextId
           /\ entity.status = "pending"
           /\ entity.content = input.content /\ entity.priority = input.priority
           /\ entity.notes = input.notes /\ entity.deps = input.deps
           /\ entity.created_at = now
           /\ entity.updated_at = None /\ entity.completed_at = None
           /\ "tasks" \in DOMAIN entity => entity.tasks = <<>>
           /\ "subtasks" \in DOMAIN entity => entity.subtasks = <<>>
           /\ \A q \in Positions(pre) :
                 SameBut(ItemAt(post, q), ItemAt(pre, q),
                         IF q \in Ancestors(newPos) THEN {"updated_at"} ELSE {})
           /\ post.version = pre.version

\* C7: a successful addEpic, addTask or addSubtask creates exactly one entity,
\* pending and without children, at the end of its parent's list (State.epics,
\* the Epic's tasks, State.tasks for a Task given no epicId, the Task's
\* subtasks); every entity that was there keeps its place and attributes, but
\* for updated_at of the ancestors of the new one.
C7_AddAppendsOne ==
    \A input \in Payloads, now \in {clock, clock + 1} :
        /\ LET result == addEpic(state, input, nextId, now)
           IN  Added(state, result, result.data.epic,
                     <<Len(state.epics) + 1, 0, 0>>, input, now)
        /\ LET result == addTask(state, TaskInput(input, None), nextId, now)
           IN  Added(state, result, result.data.task,
                     <<0, Len(state.tasks) + 1, 0>>, input, now)
        /\ \A i \in 1..Len(state.epics) :
              LET result == addTask(state, TaskInput(input, Some(state.epics[i].id)),
                                    nextId, now)
              IN  Added(state, result, result.data.task,
                        <<i, Len(state.epics[i].tasks) + 1, 0>>, input, now)
        /\ \A q \in {p \in Positions(state) : p[2] # 0 /\ p[3] = 0} :
              LET task == ItemAt(state, q)
                  result ==
                      IF q[1] = 0
                      THEN addStandaloneSubtask(
                               state, StandaloneSubtaskInput(input, task.id), nextId, now)
                      ELSE addSubtask(
                               state, SubtaskInput(input, state.epics[q[1]].id, task.id),
                               nextId, now)
              IN  Added(state, result, result.data.subtask,
                        <<q[1], q[2], Len(task.subtasks) + 1>>, input, now)

\* addSubtask has just put a second Subtask after the first, which is completed
\* as it was, below a Task of an Epic.
C7_Witness ==
    /\ last.op = "addSubtask" /\ last.ok
    /\ last.at = <<1, 1, 2>>
    /\ ItemAt(state, last.at).id = last.id
    /\ ItemAt(state, last.at).status = "pending"
    /\ ItemAt(state, <<1, 1, 1>>).status = "completed"
    /\ state.epics[1].updated_at # None

\* ---------------------------------------------------------------- update
\* The update operation that addresses the entity at a place of the tree.
updateAt(s, pos, input, now) ==
    LET id == ItemAt(s, pos).id
        taskId == ItemAt(s, <<pos[1], pos[2], 0>>).id
    IN  IF pos[2] = 0 THEN updateEpic(s, id, input, now)
        ELSE IF pos[1] = 0
        THEN IF pos[3] = 0 THEN updateStandaloneTask(s, id, input, now)
             ELSE updateStandaloneSubtask(s, taskId, id, input, now)
        ELSE IF pos[3] = 0 THEN updateTask(s, s.epics[pos[1]].id, id, input, now)
        ELSE updateSubtask(s, s.epics[pos[1]].id, taskId, id, input, now)

\* Inputs with each field alone, with none, with all, and with some together.
Changes ==
    UpdateInputs("fields")
    \cup {UpdateInput(Some(ContentA), None, Some("blocked"), None, None, None),
          UpdateInput(None, Some(1), None, Some("done so"), None, Some(<<2, 1>>)),
          UpdateInput(None, None, Some("completed"), Some("did it"), None, None)}

\* The fields of an update input that hold the value itself, and those that
\* hold an optional value.
Required == {"content", "priority", "status"}
Optional == {"implementation_description", "notes", "deps"}

\* C8: a successful update changes, on its target, the fields the input has,
\* updated_at, and completed_at when the incoming status is completed, and
\* nothing else: the fields the input lacks, id, created_at and the children
\* are as they were, and so is every other entity but for updated_at of the
\* target's ancestors.
C8_UpdateFrame ==
    \A p \in Positions(state), input \in Changes :
        LET now == clock + 1
            result == updateAt(state, p, input, now)
            old == ItemAt(state, p)
        IN  /\ result.success
            /\ Positions(result.data) = Positions(state)
            /\ result.data.version = state.version
            /\ \A q \in Positions(state) \ {p} :
                  SameBut(ItemAt(result.data, q), ItemAt(state, q),
                          IF q \in Ancestors(p) THEN {"updated_at"} ELSE {})
            /\ LET new == ItemAt(result.data, p)
               IN  /\ DOMAIN new = DOMAIN old
                   /\ new.id = old.id /\ new.created_at = old.created_at
                   /\ \A f \in Required :
                         new[f] = IF input[f] = None THEN old[f] ELSE input[f][1]
                   /\ \A f \in Optional :
                         new[f] = IF input[f] = None THEN old[f] ELSE input[f]
                   /\ new.updated_at = Some(now)
                   /\ input.status # Some("completed") => new.completed_at = old.completed_at

\* updateStandaloneTask has just changed the content of a completed Task that
\* owns a Subtask, leaving its status, its completed_at and the Subtask.
C8_Witness ==
    /\ last.op = "updateStandaloneTask" /\ last.ok
    /\ last.input.content = Some(ContentB) /\ last.input.status = None
    /\ last.at[1] = 0 /\ last.at[2] # 0
    /\ LET task == ItemAt(state, last.at)
       IN  /\ task.content = ContentB
           /\ task.status = "completed"
           /\ task.completed_at # None /\ task.completed_at # task.updated_at
           /\ task.subtasks # <<>>

\* C9: an update sets completed_at, to the instant it sets updated_at to, when
\* and only when the incoming status is completed; with the status absent, or
\* pending, in_progress or blocked, completed_at stays as it was, so that an
\* item moved from completed to another status keeps its earlier completed_at.
C9_CompletedAtOnUpdate ==
    \A p \in Positions(state), input \in Changes :
        LET now == clock + 1
            result == updateAt(state, p, input, now)
            old == ItemAt(state, p)
            new == ItemAt(result.data, p)
        IN  /\ result.success
            /\ new.completed_at = Some(now) <=> input.status = Some("completed")
            /\ new.completed_at = Some(now) => new.updated_at = new.completed_at
            /\ new.completed_at # Some(now) => new.completed_at = old.completed_at
            /\ (old.status = "completed" /\ input.status \notin {None, Some("completed")}) =>
                  new.status # "completed" /\ new.completed_at = old.completed_at

\* An update has just moved a completed item to in_progress: it keeps the
\* completed_at of the earlier instant.
C9_Witness ==
    /\ last.op \in {"updateEpic", "updateTask", "updateSubtask",
                    "updateStandaloneTask", "updateStandaloneSubtask"}
    /\ last.ok
    /\ last.input.status = Some("in_progress")
    /\ last.id \in last.changed
    /\ LET item == ItemAt(state, last.at)
       IN  /\ item.status = "in_progress"
           /\ item.completed_at # None
           /\ item.completed_at # item.updated_at

\* ---------------------------------------------------------------- ids
\* Every entity of pre is in post, at its place unless moved, with its id.
KeepsIds(pre, post, moved(_)) ==
    \A q \in Positions(pre) :
        moved(q) \in Positions(post) /\ ItemAt(post, moved(q)).id = ItemAt(pre, q).id

\* C10: in every state reached from createEmptyState by add, update,
\* markComplete and removeItem, the generator never repeating an id: the ids
\* of the Epics, Tasks and Subtasks are pairwise distinct; no operation changes
\* the id of an entity of the tree; no entity has the id of a removed one.
C10_IdsUniqueAndStable ==
    LET stay(q) == q
        fresh == generateId(nextId)
        input == CreateInput(ContentA, 2, None, None)
    IN  /\ \A p, q \in Positions(state) : p # q => ItemAt(state, p).id # ItemAt(state, q).id
        /\ removed \cap TreeIds(state) = {}
        /\ fresh \notin removed \cup TreeIds(state)
        /\ \A p \in Positions(state) :
              LET id == ItemAt(state, p).id
                  away(q) == afterRemoval(p, q)
                  afterRemove == removeItem(state, id, clock).data
              IN  /\ \A change \in Changes :
                        KeepsIds(state, updateAt(state, p, change, clock).data, stay)
                  /\ KeepsIds(state, markComplete(state, id, <<clock, clock, clock>>).data, stay)
                  /\ \A q \in Positions(state) \ Subtree(state, p) :
                        ItemAt(afterRemove, away(q)).id = ItemAt(state, q).id
                  /\ TreeIds(afterRemove) =
                        TreeIds(state) \ {ItemAt(state, q).id : q \in Subtree(state, p)}
                  /\ p[3] = 0 =>
                        LET added ==
                                IF p[2] = 0
                                THEN addTask(state, TaskInput(input, Some(id)), fresh, clock)
                                ELSE IF p[1] = 0
                                THEN addStandaloneSubtask(
                                         state, StandaloneSubtaskInput(input, id), fresh, clock)
                                ELSE addSubtask(
                                         state, SubtaskInput(input, state.epics[p[1]].id, id),
                                         fresh, clock)
                        IN  /\ KeepsIds(state, added.data.state, stay)
                            /\ TreeIds(added.data.state) = TreeIds(state) \cup {fresh}
        /\ KeepsIds(state, addEpic(state, input, fresh, clock).data.state, stay)
        /\ KeepsIds(state, addTask(state, TaskInput(input, None), fresh, clock).data.state, stay)

\* An add has just given a new id to an entity, after a removal, next to an
\* entity that was there before.
C10_Witness ==
    /\ last.op \in {"addEpic", "addTask", "addSubtask", "addStandaloneSubtask"}
    /\ last.ok
    /\ removed # {}
    /\ last.id \in TreeIds(state)
    /\ \E id \in TreeIds(state) : id < last.id /\ \E gone \in removed : id < gone

\* ---------------------------------------------------------------- getNext order
\* depth of a place: 0 for an Epic or a standalone Task, 1 for an Epic's Task
\* or a standalone Task's Subtask, 2 for a Subtask of an Epic's Task.
depthAt(pos) ==
    IF pos[2] = 0 THEN 0
    ELSE (IF pos[1] = 0 THEN 0 ELSE 1) + (IF pos[3] = 0 THEN 0 ELSE 1)

\* Document order of two places: the Epics in order, each before what it owns,
\* a Task before its Subtasks, the standalone Tasks after every Epic.
Before(p, q) ==
    LET rank(pos) == IF pos[1] = 0 THEN MaxItems + 1 ELSE pos[1]
    IN  \/ rank(p) < rank(q)
        \/ rank(p) = rank(q) /\ p[2] < q[2]
        \/ rank(p) = rank(q) /\ p[2] = q[2] /\ p[3] < q[3]

\* Place p is chosen ahead of place q: smaller priority; at equal priority and
\* level any, greater depth; still tied, earlier in the document.
Outranks(s, p, q, level) ==
    LET a == ItemAt(s, p)
        b == ItemAt(s, q)
        tied == level # "any" \/ depthAt(p) = depthAt(q)
    IN  \/ a.priority < b.priority
        \/ a.priority = b.priority /\ level = "any" /\ depthAt(p) > depthAt(q)
        \/ a.priority = b.priority /\ tied /\ Before(p, q)

ActionableAt(s, level) == {q \in Positions(s) : OfLevel(s, q, level)}
BlockedAt(s, level) ==
    {q \in ActionableAt(s, level) : \E d \in depsAt(s, q) : ~Satisfied(s, d)}

\* C12: for every state and level, getNext's queueDepth is the number of ready
\* items, blockedByDeps is the number of items actionable at the level with at
\* least one unsatisfied dependency, the two add up to the number of pending or
\* in_progress items of the level, and the item is null exactly when
\* queueDepth is 0.
C12_NextCounts ==
    \A level \in Levels :
        LET next == getNext(state, level)
        IN  /\ next.queueDepth = Cardinality(ActionableAt(state, level) \ BlockedAt(state, level))
            /\ next.blockedByDeps = Cardinality(BlockedAt(state, level))
            /\ next.queueDepth + next.blockedByDeps = Cardinality(ActionableAt(state, level))
            /\ (next.item = None) <=> (next.queueDepth = 0)

\* At level any getNext returns an item while it counts another as blocked; at
\* level task it returns null because the only actionable Tasks are blocked,
\* and a completed item is counted nowhere.
C12_Witness ==
    /\ getNext(state, "any").item # None
    /\ getNext(state, "any").blockedByDeps > 0
    /\ getNext(state, "task").item = None
    /\ getNext(state, "task").blockedByDeps > 0
    /\ \E q \in Positions(state) : ItemAt(state, q).status = "completed"

\* ---------------------------------------------------------------- flattenState
\* The number a place has in document order, from 1.
PlaceNo(s, p) == 1 + Cardinality({q \in Positions(s) : Before(q, p)})

ofType(flat, type) == {n \in 1..Len(flat) : flat[n].type = type}

\* C13: flattenState returns exactly one FlatItem for every Epic, every Task,
\* nested or standalone, and every Subtask, in document order: each Epic, then
\* each of its Tasks followed by that Task's Subtasks, then each standalone Task
\* followed by its Subtasks; the numbers of items of type epic, task and
\* subtask add up to the length of the list.
C13_FlattenDocumentOrder ==
    \A s \in Grown :
        LET flat == flattenState(s)
        IN  /\ Len(flat) = Cardinality(Positions(s))
            /\ \A p \in Positions(s) :
                  LET n == PlaceNo(s, p)
                  IN  /\ n \in 1..Len(flat)
                      /\ flat[n].id = ItemAt(s, p).id
                      /\ flat[n].type = typeAt(p)
                      /\ flat[n].depth = depthAt(p)
                      /\ \A f \in Attributes : flat[n][f] = ItemAt(s, p)[f]
            /\ \A p, q \in Positions(s) : p # q => PlaceNo(s, p) # PlaceNo(s, q)
            /\ Cardinality(ofType(flat, "epic")) = Len(s.epics)
            /\ Cardinality(ofType(flat, "task")) =
                  Cardinality({p \in Positions(s) : typeAt(p) = "task"})
            /\ Cardinality(ofType(flat, "epic")) + Cardinality(ofType(flat, "task"))
                  + Cardinality(ofType(flat, "subtask")) = Len(flat)

\* The tree holds an Epic with a Task and its Subtask and a standalone Task,
\* and flattenState lists the four in that order.
C13_Witness ==
    LET flat == flattenState(state)
    IN  /\ Len(flat) = 4
        /\ <<flat[1].type, flat[2].type, flat[3].type, flat[4].type>> =
              <<"epic", "task", "subtask", "task">>
        /\ flat[4].isStandalone = Some(TRUE)
        /\ flat[3].epicId = Some(flat[1].id)

\* ---------------------------------------------------------------- fuzzyFind
\* Strings as fuzzyFind reads them: sequences of characters.
Upper == <<"A", "B", "C", "D", "E", "F", "G", "H", "I", "J", "K", "L", "M",
           "N", "O", "P", "Q", "R", "S", "T", "U", "V", "W", "X", "Y", "Z">>
Lower == <<"a", "b", "c", "d", "e", "f", "g", "h", "i", "j", "k", "l", "m",
           "n", "o", "p", "q", "r", "s", "t", "u", "v", "w", "x", "y", "z">>
Digits == <<"0", "1", "2", "3", "4", "5", "6", "7", "8", "9">>

\* String.prototype.toLowerCase, character by character.
toLowerCase(text) ==
    LET lowerOf(c) ==
            IF \E n \in 1..Len(Upper) : Upper[n] = c
            THEN Lower[CHOOSE n \in 1..Len(Upper) : Upper[n] = c]
            ELSE c
    IN  [n \in 1..Len(text) |-> lowerOf(text[n])]

\* String.prototype.includes: query occurs in text at some offset.
includes(text, query) ==
    \E from \in 0..(Len(text) - Len(query)) :
        SubSeq(text, from + 1, from + Len(query)) = query

\* A content that quotes the first id the generator gives out.
ContentC == "see k0000001 too"

\* The characters of the contents the model stores.
Text(content) ==
    CASE content = ContentA ->
            <<"a", "l", "p", "h", "a", " ", "c", "o", "n", "t", "e", "n", "t">>
      [] content = ContentB ->
            <<"B", "e", "t", "a", " ", "c", "o", "n", "t", "e", "n", "t", "!">>
      [] content = ContentC ->
            <<"s", "e", "e", " ", "k", "0", "0", "0", "0", "0", "0", "1", " ", "t", "o", "o">>

\* The string generateId returns for the id the model numbers id: eight
\* lowercase base36 characters.
idText(id) ==
    <<"k", "0", "0", "0", "0", "0", Digits[((id \div 10) % 10) + 1], Digits[(id % 10) + 1]>>

\* A fuzzyFind that filters by content whether or not the query is an id.
fuzzyFindWithoutExactId(s, query) ==
    LET queryLower == toLowerCase(query)
        matches(i) == includes(toLowerCase(Text(i.content)), queryLower)
    IN  SelectSeq(flattenState(s), matches)

fuzzyFind(s, query) ==
    LET flat == flattenState(s)
        isExact(n) == idText(flat[n].id) = query
        queryLower == toLowerCase(query)
        matches(i) == includes(toLowerCase(Text(i.content)), queryLower)
    IN  IF \E n \in 1..Len(flat) : isExact(n)
        THEN <<flat[CHOOSE n \in 1..Len(flat) :
                       isExact(n) /\ \A m \in 1..(n - 1) : ~isExact(m)]>>
        ELSE SelectSeq(flat, matches)

\* The queries tried: the strings of the ids given out and of the next one, one
\* of them in upper case, the empty string, words of the contents in either
\* case, and a word no content holds.
Queries ==
    {idText(id) : id \in 1..nextId}
    \cup {<<"K", "0", "0", "0", "0", "0", "0", "1">>, <<>>,
          <<"c", "o", "n", "t", "e", "n", "t">>, <<"B", "E", "T", "A">>,
          <<"b", "e", "t", "a">>, <<"A", "l", "p", "h", "a", " ">>, <<"t", "!">>,
          <<"z", "e", "t", "a">>}

\* The tree, and the tree after the content of one entity is updated to
\* ContentC.
Recontented ==
    {state} \cup
    {updateAt(state, p, UpdateInput(Some(ContentC), None, None, None, None, None), clock).data :
        p \in Positions(state)}

\* The places whose id is the query, and those whose content holds the query
\* whatever the case of the letters.
HoldersOf(s, query) == {p \in Positions(s) : idText(ItemAt(s, p).id) = query}
ContainingOf(s, query) ==
    {p \in Positions(s) :
        includes(toLowerCase(Text(ItemAt(s, p).content)), toLowerCase(query))}

Warned(s, kind, label, id) ==
    LET warnings == lintState(s).warnings
    IN  \E n \in 1..Len(warnings) :
            warnings[n].kind = kind /\ warnings[n].label = label /\ warnings[n].about = id

\* The places of the completed Tasks that own a Subtask that is not completed.
HalfDoneTasks(s) ==
    {p \in Positions(s) :
        /\ typeAt(p) = "task"
        /\ ItemAt(s, p).status = "completed"
        /\ countIncomplete(ItemAt(s, p).subtasks) > 0}

\* The completion-consistency warnings of the Epics and of the Tasks they own:
\* one for every completed Epic with a Task not completed, one for every
\* completed Task of an Epic with a Subtask not completed, and no other.
EpicOwnedCompletionWarned ==
    /\ \A i \in 1..Len(state.epics) :
          Warned(state, "incomplete", "Epic", state.epics[i].id)
              <=> (state.epics[i].status = "completed"
                   /\ countIncomplete(state.epics[i].tasks) > 0)
    /\ \A p \in {q \in Positions(state) : typeAt(q) = "task" /\ q[1] # 0} :
          Warned(state, "incomplete", "Task", ItemAt(state, p).id)
              <=> p \in HalfDoneTasks(state)

\* C16: lintState emits a completion-consistency warning for every Epic that is
\* completed while at least one of its Tasks is not completed, and for every
\* Task in the state, Epic-owned or standalone, that is completed while at
\* least one of its Subtasks is not completed.
C16_CompletionWarnings ==
    /\ \A i \in 1..Len(state.epics) :
          (state.epics[i].status = "completed" /\ countIncomplete(state.epics[i].tasks) > 0)
              => Warned(state, "incomplete", "Epic", state.epics[i].id)
    /\ \A p \in HalfDoneTasks(state) :
          Warned(state, "incomplete", "Task", ItemAt(state, p).id)

\* ---------------------------------------------------------------- lint: suggestions
Suggested(s, label, id) ==
    LET suggestions == lintState(s).suggestions
    IN  \E n \in 1..Len(suggestions) :
            /\ suggestions[n].kind = "complete it"
            /\ suggestions[n].label = label
            /\ suggestions[n].about = id

\* The entity is not completed, owns a child, and every child is completed.
OnlyParentOpen(parent, children) ==
    /\ parent.status # "completed"
    /\ Len(children) >= 1
    /\ \A k \in 1..Len(children) : children[k].status = "completed"

\* C17: lintState emits a completion suggestion for an Epic exactly when the
\* Epic is not completed, has at least one Task and all its Tasks are
\* completed, and for a Task of an Epic exactly when the Task is not completed,
\* has at least one Subtask and all its Subtasks are completed; an item with no
\* children never gets a suggestion.
C17_CompletionSuggestions ==
    LET suggestions == lintState(state).suggestions
    IN  /\ \A i \in 1..Len(state.epics) :
              Suggested(state, "Epic", state.epics[i].id)
                  <=> OnlyParentOpen(state.epics[i], state.epics[i].tasks)
        /\ \A p \in {q \in Positions(state) : typeAt(q) = "task" /\ q[1] # 0} :
              Suggested(state, "Task", ItemAt(state, p).id)
                  <=> OnlyParentOpen(ItemAt(state, p), ItemAt(state, p).subtasks)
        /\ \A p \in Positions(state) :
              Subtree(state, p) = {p} =>
                  \A n \in 1..Len(suggestions) : suggestions[n].about # ItemAt(state, p).id

\* A Task of an Epic that is not completed is suggested because its one Subtask
\* is completed, while the Epic, whose Task is open, and the Subtask are not;
\* once the Task is updated to completed the Epic is suggested.
C17_Witness ==
    \E p \in Positions(state) :
        /\ typeAt(p) = "task" /\ p[1] # 0
        /\ Suggested(state, "Task", ItemAt(state, p).id)
        /\ Len(lintState(state).suggestions) = 1
        /\ state.epics[p[1]].status # "completed"
        /\ Suggested(updateAt(state, p, StatusInput("completed"), clock).data,
                     "Epic", state.epics[p[1]].id)

\* ---------------------------------------------------------------- lint: cycles
\* The Epics of a document as the Tasks of one Epic, and as the Subtasks of one
\* Task of an Epic: the same ids, statuses and dependencies one and two levels
\* down, under parents with ids the generator has not given out.
AsSibling(epic, children) ==
    LET attributes == [f \in Attributes |-> epic[f]]
    IN  IF children = None THEN attributes
        ELSE attributes @@ [subtasks |-> children[1]]

AsTasks(s) ==
    LET input == CreateInput(ContentA, 2, None, None)
        parent == addEpic(createEmptyState, input, nextId, clock).data.state
        tasks == [i \in 1..Len(s.epics) |-> AsSibling(s.epics[i], Some(<<>>))]
    IN  [parent EXCEPT !.epics[1].tasks = tasks]

AsSubtasks(s) ==
    LET input == CreateInput(ContentA, 2, None, None)
        parent == addEpic(createEmptyState, input, nextId, clock).data.state
        owner == addTask(parent, TaskInput(input, Some(nextId)), nextId + 1, clock).data.state
        subtasks == [i \in 1..Len(s.epics) |-> AsSibling(s.epics[i], None)]
    IN  [owner EXCEPT !.epics[1].tasks[1].subtasks = subtasks]

\* The documents linted: the tree, and its Epics as Tasks and as Subtasks.
Documents == {state, AsTasks(state), AsSubtasks(state)}

\* The sibling lists lintState visits, each with the label of its messages.
Scopes(s) ==
    {[items |-> s.epics, label |-> "Epic"]}
    \cup {[items |-> s.epics[i].tasks, label |-> "Task"] : i \in 1..Len(s.epics)}
    \cup UNION {{[items |-> s.epics[i].tasks[k].subtasks, label |-> "Subtask"] :
                    k \in 1..Len(s.epics[i].tasks)} : i \in 1..Len(s.epics)}

\* Sibling a lists sibling b among its dependencies.
DependsOn(items, a, b) ==
    \E n \in 1..Len(items) :
        /\ items[n].id = a
        /\ items[n].deps # None
        /\ \E k \in 1..Len(items[n].deps[1]) : items[n].deps[1][k] = b

\* The dependency cycles among the siblings: the sequences of distinct sibling
\* ids, each depending on the next and the last on the first.
Cycles(items) ==
    UNION {{c \in [1..n -> idsOf(items)] :
               /\ \A j, k \in 1..n : j # k => c[j] # c[k]
               /\ \A k \in 1..n : DependsOn(items, c[k], c[(k % n) + 1])} :
           n \in 1..Len(items)}

Among(warnings, kind, label, id) ==
    \E n \in 1..Len(warnings) :
        warnings[n].kind = kind /\ warnings[n].label = label /\ warnings[n].about = id

InvalidDepAmong(warnings, label, id, depId) ==
    \E n \in 1..Len(warnings) :
        /\ warnings[n].kind = "invalid dep" /\ warnings[n].label = label
        /\ warnings[n].about = id /\ warnings[n].detail = depId

InvalidDepWarned(s, label, id, depId) ==
    InvalidDepAmong(lintState(s).warnings, label, id, depId)

\* The ids an entity of the tree may name: those given out and the next one.
DepIds == 1..nextId

\* C18: for every Epic, every Task of an Epic and every Subtask of such a Task,
\* and every id d in its deps, lintState emits depends on itself when d is the
\* item's own id, and otherwise invalid dep when d is not the id of a sibling
\* of the item's scope (another Epic, a Task of the same Epic, a Subtask of the
\* same Task); a dep on an existing item of another scope or level is flagged
\* invalid, and a dep on a sibling yields neither warning.
C18_DepWarnings ==
    \A s \in Documents :
        LET warnings == lintState(s).warnings
        IN  \A scope \in Scopes(s) : \A n \in 1..Len(scope.items) :
                LET item == scope.items[n]
                    siblings == idsOf(scope.items) \ {item.id}
                    own == DependsOn(scope.items, item.id, item.id)
                IN  /\ Among(warnings, "depends on itself", scope.label, item.id) <=> own
                    /\ \A d \in DepIds :
                          InvalidDepAmong(warnings, scope.label, item.id, d)
                              <=> (/\ DependsOn(scope.items, item.id, d)
                                   /\ d # item.id
                                   /\ d \notin siblings)
                    /\ \A d \in siblings :
                          (DependsOn(scope.items, item.id, d) /\ ~own)
                              => \A kind \in {"depends on itself", "invalid dep"} :
                                    ~Among(warnings, kind, scope.label, item.id)

\* A Task names its Epic, an existing entity of another level, and is warned of
\* an invalid dep; its sibling names it and gets neither warning; the Epic
\* names itself and is warned that it depends on itself.
C18_Witness ==
    /\ Len(state.epics) = 1
    /\ Len(state.epics[1].tasks) = 2
    /\ LET epic == state.epics[1]
           first == epic.tasks[1]
           second == epic.tasks[2]
       IN  /\ epic.deps = Some(<<epic.id>>)
           /\ first.deps = Some(<<epic.id>>)
           /\ second.deps = Some(<<first.id>>)
           /\ Warned(state, "depends on itself", "Epic", epic.id)
           /\ InvalidDepWarned(state, "Task", first.id, epic.id)
           /\ ~Warned(state, "invalid dep", "Task", second.id)
           /\ ~Warned(state, "depends on itself", "Task", second.id)

\* ---------------------------------------------------------------- lint: termination
\* An entity of the tree names an id that resolves to nothing in the tree.
NamesNothing(s) ==
    \E p \in Positions(s) : \E d \in depsAt(s, p) : d \notin TreeIds(s)

\* C19: lintState terminates and returns a result of warnings and suggestions
\* for every finite state, also when deps hold self-loops, cycles of any length
\* or ids that resolve to nothing: the calls of detectCycle nest no deeper than
\* the number of siblings plus one, and the lists are finite; for the empty
\* state both lists are empty.
C19_LintTerminates ==
    /\ lintState(createEmptyState) = [warnings |-> <<>>, suggestions |-> <<>>]
    /\ \A s \in Documents :
          LET result == lintState(s)
              entities == Cardinality(Positions(s))
          IN  /\ DOMAIN result = {"warnings", "suggestions"}
              /\ Len(result.warnings) <= 3 * entities
              /\ Len(result.suggestions) <= entities
              /\ s.epics = <<>> => result = lintState(createEmptyState)
              /\ \A scope \in Scopes(s) : \A n \in 1..Len(scope.items) :
                    detectCycleDepth(scope.items[n].id, depsOrEmpty(scope.items[n]),
                                     scope.items, {}) <= Len(scope.items) + 1

\* lintState returns its warnings for a tree in which one Epic names itself,
\* another names an id that resolves to nothing, and the calls of detectCycle
\* nest two deep.
C19_Witness ==
    /\ NamesNothing(state)
    /\ \E i, j \in 1..Len(state.epics) :
          /\ DependsOn(state.epics, state.epics[i].id, state.epics[i].id)
          /\ i # j /\ state.epics[j].deps # None
          /\ \A d \in depsAt(state, <<j, 0, 0>>) : d \notin TreeIds(state)
          /\ detectCycleDepth(state.epics[i].id, depsOrEmpty(state.epics[i]),
                              state.epics, {}) = 2
    /\ Len(lintState(state).warnings) = 3
    /\ lintState(state).suggestions = <<>>

\* ---------------------------------------------------------------- validateState
\* The entities of a raw document, each with the path of its place.
RawPlaces(raw) ==
    LET epicAt(i) == [path |-> <<"epics", Index(i)>>, entity |-> raw.epics[i]]
        taskAt(i, k) ==
            [path |-> epicAt(i).path \o <<"tasks", Index(k)>>,
             entity |-> raw.epics[i].tasks[k]]
        subtaskAt(i, k, j) ==
            [path |-> taskAt(i, k).path \o <<"subtasks", Index(j)>>,
             entity |-> raw.epics[i].tasks[k].subtasks[j]]
    IN  {epicAt(i) : i \in 1..Len(raw.epics)}
        \cup UNION {{taskAt(i, k) : k \in 1..Len(raw.epics[i].tasks)} :
                       i \in 1..Len(raw.epics)}
        \cup UNION {UNION {{subtaskAt(i, k, j) :
                               j \in 1..Len(raw.epics[i].tasks[k].subtasks)} :
                              k \in 1..Len(raw.epics[i].tasks)} :
                       i \in 1..Len(raw.epics)}

ContentLongEnough(entity) == Len(entity.content) >= 10
PriorityInRange(entity) ==
    entity.priority # None /\ entity.priority[1] \in {2 * n : n \in 1..5}
StatusOfEnum(status) == status \in {"pending", "in_progress", "completed", "blocked"}

\* The paths of the fields of a raw document that break what the claim asks.
ViolatingFields(raw) ==
    (IF raw.version = Some(1) THEN {} ELSE {<<"version">>})
    \cup {place.path \o <<"content">> :
             place \in {q \in RawPlaces(raw) : ~ContentLongEnough(q.entity)}}
    \cup {place.path \o <<"priority">> :
             place \in {q \in RawPlaces(raw) : ~PriorityInRange(q.entity)}}
    \cup {place.path \o <<"status">> :
             place \in {q \in RawPlaces(raw) :
                           q.entity.status # None /\ ~StatusOfEnum(q.entity.status[1])}}

stringify(s) ==
    LET fields(entity) ==
            [id |-> entity.id, content |-> Text(entity.content),
             priority |-> Some(2 * entity.priority), status |-> Some(entity.status),
             created_at |-> entity.created_at]
        task(t) == fields(t) @@
                   [subtasks |-> [j \in 1..Len(t.subtasks) |-> fields(t.subtasks[j])]]
        epic(e) == fields(e) @@ [tasks |-> [k \in 1..Len(e.tasks) |-> task(e.tasks[k])]]
    IN  [version |-> Some(s.version),
         epics |-> [i \in 1..Len(s.epics) |-> epic(s.epics[i])]]

restatused(pre, post) ==
    {q \in Positions(pre) : ItemAt(post, q).status # ItemAt(pre, q).status}

C23_EpicCompletedWithItsTasks ==
    \A pos \in SubtaskPositions(state), ts \in CallInstants :
        pos[1] # 0 =>
            LET result == markComplete(state, ItemAt(state, pos).id, ts)
            IN  result.success =>
                    LET task == ItemAt(result.data, <<pos[1], pos[2], 0>>)
                        epic == ItemAt(result.data, <<pos[1], 0, 0>>)
                    IN  everyCompleted(task.subtasks) /\ everyCompleted(epic.tasks)
                            => epic.status = "completed"

\* ---------------------------------------------------------------- lint: traversal
\* Sibling b is reached from sibling a by following one to n dependency edges
\* of the id-to-deps map of the siblings.
RECURSIVE ReachedWithin(_, _, _, _)
ReachedWithin(items, a, b, n) ==
    \/ DependsOn(items, a, b)
    \/ /\ n > 1
       /\ \E c \in idsOf(items) : DependsOn(items, a, c) /\ ReachedWithin(items, c, b, n - 1)

\* Following the edges from x leads back to an id that is on the path walked:
\* some sibling reached from x, or x itself, is reached from itself.
ReturnsToPath(items, x) ==
    \E y \in idsOf(items) :
        /\ y = x \/ ReachedWithin(items, x, y, Len(items))
        /\ ReachedWithin(items, y, y, Len(items))

\* A deps B and C, B deps D, C deps D, D deps nothing.
Diamond(items) ==
    /\ Len(items) = 4
    /\ items[1].deps = Some(<<items[2].id, items[3].id>>)
    /\ items[2].deps = Some(<<items[4].id>>)
    /\ items[3].deps = Some(<<items[4].id>>)
    /\ items[4].deps \in {None, Some(<<>>)}

\* C24: lintState emits a circular dependency warning for an item with
\* non-empty deps exactly when following the deps edges from it, within the
\* id-to-deps map of its sibling scope, reaches an id that is already on the
\* path being walked; so the acyclic graph in which A depends on B and C, and
\* B and C both depend on D, gets no circular dependency warning.
C24_CircularExactlyOnPath ==
    \A s \in Documents : \A scope \in Scopes(s) :
        LET warnings == lintState(s).warnings
            items == scope.items
        IN  /\ \A n \in 1..Len(items) :
                  Among(warnings, "circular dependency", scope.label, items[n].id)
                  <=> /\ items[n].deps # None
                      /\ items[n].deps[1] # <<>>
                      /\ ReturnsToPath(items, items[n].id)
            /\ Diamond(items) =>
                  \A n \in 1..Len(items) :
                      ~Among(warnings, "circular dependency", scope.label, items[n].id)

\* lintState has been given the diamond among the Epics, and has returned no
\* warning, although the dependency shared by two Epics is reached twice.
C24_Witness ==
    /\ last.op = "lintState"
    /\ Diamond(state.epics)
    /\ ReachedWithin(state.epics, 2, 4, 1) /\ ReachedWithin(state.epics, 3, 4, 1)
    /\ last.result.warnings = <<>>
    /\ \A s \in Documents : lintState(s).warnings = <<>>

\* ---------------------------------------------------------------- markComplete frame
\* C25: a successful markComplete(id) changes the status of at most the item,
\* the Task that owns it and the Epic that owns it; the statuses of what the
\* item owns, of its siblings and of every other subtree stay as they were, so
\* an Epic or a Task marked completed keeps the children it has that are not.
C25_MarkCompleteStatusFrame ==
    \A p \in Positions(state), ts \in CallInstants :
        LET result == markComplete(state, ItemAt(state, p).id, ts)
        IN  result.success =>
                /\ Positions(result.data) = Positions(state)
                /\ restatused(state, result.data) \subseteq {p} \cup Ancestors(p)
                /\ \A q \in Subtree(state, p) \ {p} :
                      ItemAt(result.data, q).status = ItemAt(state, q).status
                /\ \A q \in Positions(state) :
                      ItemAt(result.data, q).id = ItemAt(state, q).id

\* markComplete has just completed an Epic, and nothing else, which owns a
\* Task that owns a Subtask, neither of them completed, next to a standalone Task.
C25_Witness ==
    /\ last.op = "markComplete" /\ last.ok
    /\ last.at[1] # 0 /\ last.at[2] = 0
    /\ last.changed = {last.id}
    /\ state.epics[last.at[1]].status = "completed"
    /\ Len(state.epics[last.at[1]].tasks) >= 1
    /\ state.epics[last.at[1]].tasks[1].status # "completed"
    /\ Len(state.epics[last.at[1]].tasks[1].subtasks) >= 1
    /\ state.epics[last.at[1]].tasks[1].subtasks[1].status # "completed"
    /\ Len(state.tasks) >= 1
    /\ state.tasks[1].status # "completed"

\* ---------------------------------------------------------------- deps on removed items
\* The places of the pending and in_progress items whose deps name an id that
\* removeItem has deleted.
Orphaned(s, gone) ==
    {q \in Positions(s) :
        /\ ItemAt(s, q).status \in {"pending", "in_progress"}
        /\ depsAt(s, q) \cap gone # {}}

\* The ids of the items getNext holds ready at a level.
readyIds(s, level) ==
    LET ready == readyItems(s, level) IN {ready[n].id : n \in 1..Len(ready)}

\* C26: removeItem leaves the deps of the remaining items as they are; from
\* the removal on, an item that is pending or in_progress and whose deps hold
\* the id removed is not among the items getNext holds ready, is not the item
\* getNext returns and is counted in blockedByDeps, for as long as its deps
\* hold that id.
C26_DepsOnRemovedBlock ==
    /\ \A level \in Levels :
          LET held == {q \in Orphaned(state, removed) : OfLevel(state, q, level)}
              next == getNext(state, level)
          IN  /\ \A q \in held : ItemAt(state, q).id \notin readyIds(state, level)
              /\ next.item # None => \A q \in held : next.item[1].id # ItemAt(state, q).id
              /\ next.blockedByDeps >= Cardinality(held)
              /\ next.blockedByDeps =
                    Cardinality({q \in Positions(state) :
                                    /\ OfLevel(state, q, level)
                                    /\ ItemAt(state, q).id \notin readyIds(state, level)})
    /\ \A p \in Positions(state), now \in {clock, clock + 1} :
          LET id == ItemAt(state, p).id
              result == removeItem(state, id, now)
              kept == Positions(state) \ Subtree(state, p)
          IN  /\ result.success
              /\ \A q \in kept :
                    /\ ItemAt(result.data, afterRemoval(p, q)).deps = ItemAt(state, q).deps
                    /\ id \in depsAt(state, q) /\ OfLevel(state, q, "any") =>
                          /\ ItemAt(state, q).id \notin readyIds(result.data, "any")
                          /\ getNext(result.data, "any").blockedByDeps >= 1

\* An item whose deps name a removed item has been updated since the removal,
\* not in its deps, and getNext, with nothing else to return, counts it blocked.
C26_Witness ==
    /\ removed # {}
    /\ last.op \in {"updateEpic", "updateTask", "updateStandaloneTask"} /\ last.ok
    /\ last.at \in Orphaned(state, removed)
    /\ ItemAt(state, last.at).status = "in_progress"
    /\ getNext(state, "any").item = None
    /\ getNext(state, "any").blockedByDeps = 1

\* ---------------------------------------------------------------- dependency cycles and getNext
\* The ids of the items that lie on a dependency cycle, self-dependencies
\* included, all of whose items are pending or in_progress.
StuckIds(s) ==
    LET open == ActionableAt(s, "any")
        ids == {ItemAt(s, q).id : q \in open}
        edges == UNION {{<<ItemAt(s, q).id, d>> : d \in depsAt(s, q) \cap ids} : q \in open}
        next(among) == {e[2] : e \in {f \in edges : f[1] \in among}}
        RECURSIVE within(_, _)
        within(among, n) == IF n = 0 THEN among ELSE within(among \cup next(among), n - 1)
    IN  {x \in ids : x \in within(next({x}), MaxIds)}

\* The ids of the pending and in_progress items getNext does not hold ready.
BlockedIds(s) == {ItemAt(s, q).id : q \in ActionableAt(s, "any")} \ readyIds(s, "any")

\* The items of the open cycles, stuck, that are still in the tree post and no
\* longer blocked there.
Released(stuck, post) == (stuck \cap TreeIds(post)) \ BlockedIds(post)

\* The updates tried on an item: of its status, and of its deps.
Unblocking ==
    {StatusInput(st) : st \in {"pending", "in_progress", "completed", "blocked"}}
    \cup {UpdateInput(None, None, None, None, None, Some(<<>>))}

\* While every item of a dependency cycle is pending or in_progress, getNext
\* returns none of them and holds none of them ready, at any level.
NeverNextOnOpenCycle(stuck) ==
    \A level \in Levels :
        /\ stuck \cap readyIds(state, level) = {}
        /\ stuck \subseteq BlockedIds(state)
        /\ getNext(state, level).item # None => getNext(state, level).item[1].id \notin stuck

\* An update releases an item of an open cycle only if it is the update of an
\* item of an open cycle.
UpdateReleasesOnlyDirectly(stuck) ==
    \A p \in Positions(state), input \in Unblocking :
        LET result == updateAt(state, p, input, clock)
        IN  result.success /\ Released(stuck, result.data) # {} => ItemAt(state, p).id \in stuck

\* markComplete releases an item of an open cycle only if it is called on an
\* item of an open cycle.
MarkCompleteReleasesOnlyDirectly(stuck) ==
    \A id \in TreeIds(state), ts \in CallInstants :
        LET result == markComplete(state, id, ts)
        IN  result.success /\ Released(stuck, result.data) # {} => id \in stuck

\* markComplete releases the item of an open cycle it is called on, and
\* otherwise only the items of open cycles that own the item it is called on
\* and that its cascade completes.
MarkCompleteReleasesUpwards(stuck) ==
    \A p \in Positions(state), ts \in CallInstants :
        LET id == ItemAt(state, p).id
            result == markComplete(state, id, ts)
        IN  /\ id \in stuck => result.success /\ id \in Released(stuck, result.data)
            /\ result.success /\ Released(stuck, result.data) # {} =>
                  \/ id \in stuck
                  \/ \E q \in Ancestors(p) :
                        /\ ItemAt(state, q).id \in stuck
                        /\ ItemAt(result.data, q).status = "completed"

\* removeItem releases no item of an open cycle that it leaves in the tree.
RemoveReleasesNothing(stuck) ==
    \A p \in Positions(state) :
        LET result == removeItem(state, ItemAt(state, p).id, clock)
        IN  result.success => Released(stuck, result.data) = {}

StatedRelease(stuck) ==
    stuck # {} =>
        /\ NeverNextOnOpenCycle(stuck)
        /\ UpdateReleasesOnlyDirectly(stuck)
        /\ MarkCompleteReleasesOnlyDirectly(stuck)

ActualRelease(stuck) ==
    stuck # {} =>
        /\ NeverNextOnOpenCycle(stuck)
        /\ UpdateReleasesOnlyDirectly(stuck)
        /\ MarkCompleteReleasesUpwards(stuck)
        /\ RemoveReleasesNothing(stuck)

\* C27 as stated: while every item of a dependency cycle is pending or
\* in_progress getNext returns none of them, at any level; an item of the
\* cycle leaves the blocked set only by a markComplete or an update called on
\* an item of a cycle, or by a change of deps.
C27_ReleasedOnlyDirectly == StatedRelease(StuckIds(state))

\* C27: while every item of a dependency cycle (a self-dependency included)
\* is pending or in_progress, getNext returns none of them, at any level.
\* markComplete does not look at deps: an item of the cycle leaves the blocked
\* set by an update of the status or of the deps of an item of a cycle, by a
\* markComplete of an item of a cycle, or by a markComplete of something an
\* item of a cycle owns, whose cascade completes that item.
C27_OpenCycleNeverNext == ActualRelease(StuckIds(state))

\* markComplete of a Subtask has just completed, by its cascade, the Task that
\* owns it and that depends on itself, while an Epic on a cycle of its own
\* stays blocked and getNext returns nothing.
C27_Witness ==
    /\ last.op = "markComplete" /\ last.ok
    /\ last.at[3] # 0
    /\ LET owner == ItemAt(state, <<last.at[1], last.at[2], 0>>)
       IN  /\ owner.id \in last.changed
           /\ owner.id \in depsAt(state, <<last.at[1], last.at[2], 0>>)
           /\ owner.status = "completed"
    /\ StuckIds(state) # {}
    /\ getNext(state, "any").item = None
    /\ getNext(state, "any").blockedByDeps >= 1

\* ---------------------------------------------------------------- completed_at over the operations
\* Every completed item has completed_at, and completed_at is no later than
\* updated_at.
CompletedStamped(s) ==
    \A q \in Positions(s) :
        LET item == ItemAt(s, q)
        IN  /\ item.status = "completed" => item.completed_at # None
            /\ item.completed_at # None =>
                  /\ item.updated_at # None
                  /\ item.completed_at[1] <= item.updated_at[1]

\* markComplete of an item, at the current instant or at three later ones,
\* with the cascade it runs, keeps every completed item stamped.
MarkCompleteStamps ==
    \A id \in TreeIds(state), ts \in CallInstants :
        LET result == markComplete(state, id, ts)
        IN  result.success /\ CompletedStamped(result.data)

\* An operation leaves on an item the completed_at it had, or writes one of
\* its own instants while it sets the item to completed.
StampedOnCompletion ==
    \A q \in Positions(state') :
        LET after == ItemAt(state', q)
        IN  after.completed_at # None =>
                \/ \E p \in Positions(state) :
                      /\ ItemAt(state, p).id = after.id
                      /\ ItemAt(state, p).completed_at = after.completed_at
                \/ /\ after.status = "completed"
                   /\ after.id \in TreeIds(state)
                   /\ clock < after.completed_at[1]
                   /\ after.completed_at[1] <= clock'

\* C28: in every state reached from createEmptyState by add, update,
\* markComplete and removeItem, with a clock that does not go back, every
\* completed item has completed_at, completed_at is no later than the item's
\* updated_at, and an item has completed_at only from an operation that set
\* its status to completed: an operation either keeps the completed_at of an
\* item or writes its own instant on an item it sets to completed.
C28_CompletedAtInvariant ==
    [](CompletedStamped(state) /\ MarkCompleteStamps) /\ [][StampedOnCompletion]_vars

\* An item completed at one instant has been set back to in_progress by a
\* later update: it keeps its completed_at, earlier than its updated_at.
C28_Witness ==
    /\ last.ok
    /\ last.op \in {"updateEpic", "updateTask", "updateSubtask"}
    /\ last.at \in Positions(state)
    /\ LET item == ItemAt(state, last.at)
       IN  /\ item.status = "in_progress"
           /\ item.completed_at # None
           /\ item.completed_at[1] < item.updated_at[1]
           /\ item.created_at < item.completed_at[1]

\* ---------------------------------------------------------------- updated_at of the owners
\* An Epic or a Task that owns something has updated_at, no earlier than the
\* created_at and the updated_at of anything it owns.
OwnersUpdatedLast(s) ==
    \A p \in Positions(s) :
        \A q \in Subtree(s, p) \ {p} :
            LET owner == ItemAt(s, p)
                owned == ItemAt(s, q)
            IN  /\ owner.updated_at # None
                /\ owned.created_at <= owner.updated_at[1]
                /\ owned.updated_at # None => owned.updated_at[1] <= owner.updated_at[1]

\* markComplete of an item, at the current instant or at three later ones,
\* writes one of its instants to the updated_at of each owner of the item, and
\* the owners stay the last updated.
MarkCompleteRefreshesOwners ==
    \A p \in Positions(state), ts \in CallInstants :
        LET result == markComplete(state, ItemAt(state, p).id, ts)
        IN  /\ result.success
            /\ OwnersUpdatedLast(result.data)
            /\ ItemAt(result.data, p).updated_at = Some(ts[1])
            /\ \A q \in Ancestors(p) :
                  /\ ItemAt(result.data, q).updated_at # None
                  /\ ItemAt(result.data, q).updated_at[1] \in {ts[1], ts[2], ts[3]}

\* The operations that change the tree.
Mutations ==
    {"addEpic", "addTask", "addSubtask", "addStandaloneSubtask",
     "updateEpic", "updateTask", "updateSubtask", "updateStandaloneTask",
     "updateStandaloneSubtask", "markComplete", "removeItem"}

\* A successful add, update, markComplete or removal below an Epic or a Task
\* writes an instant of its own to the updated_at of each owner of the target.
OwnersRefreshed ==
    last'.ok /\ last'.op \in Mutations /\ last' # last =>
        \A q \in Ancestors(last'.at) :
            LET owner == ItemAt(state', q)
            IN  /\ q \in Positions(state')
                /\ owner.updated_at # None
                /\ clock < owner.updated_at[1]
                /\ owner.updated_at[1] <= clock'

\* C29: in every state reached from createEmptyState by the operations, with
\* a clock that does not go back, each Epic or Task that has at least one
\* child has updated_at, no earlier than the created_at and (when set) the
\* updated_at of any of its descendants; every add, update, markComplete and
\* removal below an item refreshes the updated_at of all its ancestors.
C29_AncestorsUpdatedLast ==
    [](OwnersUpdatedLast(state) /\ MarkCompleteRefreshesOwners) /\ [][OwnersRefreshed]_vars

\* A Subtask of a Task of an Epic has just been updated, at an instant later
\* than the creation of the three: the Task and the Epic carry that instant.
C29_Witness ==
    /\ last.op = "updateSubtask" /\ last.ok
    /\ last.at \in Positions(state)
    /\ last.at[1] # 0 /\ last.at[3] # 0
    /\ ItemAt(state, last.at).updated_at = Some(clock)
    /\ \A q \in Ancestors(last.at) :
          /\ ItemAt(state, q).updated_at = Some(clock)
          /\ ItemAt(state, q).created_at < ItemAt(state, last.at).created_at
    /\ ItemAt(state, last.at).created_at < clock
\* ---------------------------------------------------------------- the done command
\* The item the done command acts on: the exact id, or the only match.
findItem(s, identifier) ==
    LET matches == fuzzyFind(s, identifier)
    IN  IF Len(matches) = 0 THEN [found |-> FALSE, error |-> "not_found"]
        ELSE IF Len(matches) > 1 /\ idText(matches[1].id) # identifier
        THEN [found |-> FALSE, error |-> "multiple"]
        ELSE [found |-> TRUE, item |-> matches[1]]

completeWithImpl(s, item, impl, now) ==
    LET input == UpdateInput(None, None, Some("completed"), Some(impl), None, None)
    IN  IF item.type = "epic" THEN updateEpic(s, item.id, input, now)
        ELSE IF item.type = "task"
        THEN IF item.isStandalone = Some(TRUE) THEN updateStandaloneTask(s, item.id, input, now)
             ELSE IF item.epicId = None THEN Fail("Task has no epic reference", item.id)
             ELSE updateTask(s, item.epicId[1], item.id, input, now)
        ELSE IF item.taskId = None THEN Fail("Subtask has no task reference", item.id)
        ELSE IF item.isStandalone = Some(TRUE)
        THEN updateStandaloneSubtask(s, item.taskId[1], item.id, input, now)
        ELSE IF item.epicId = None THEN Fail("Subtask has no epic reference", item.id)
        ELSE updateSubtask(s, item.epicId[1], item.taskId[1], item.id, input, now)

\* The run of the done command on the state read: the state the file holds
\* afterwards. impl is None without --impl, and an empty text counts as none.
done(s, identifier, impl, ts) ==
    LET findResult == findItem(s, identifier)
    IN  IF ~findResult.found THEN [exit |-> 1, state |-> s]
        ELSE IF findResult.item.status = "completed" THEN [exit |-> 0, state |-> s]
        ELSE LET opResult == IF impl # None /\ impl[1] # <<>>
                             THEN completeWithImpl(s, findResult.item, impl[1], ts[1])
                             ELSE markComplete(s, findResult.item.id, ts)
             IN  IF ~opResult.success THEN [exit |-> 1, state |-> s]
                 ELSE [exit |-> 0, state |-> opResult.data]

\* The identifiers given to done: the ids of the tree, and a word of a content.
Identifiers == {idText(id) : id \in TreeIds(state)} \cup {Text(ContentA)}

\* The description given with --impl.
ImplText == <<"d", "o", "n", "e">>

\* C30: the done command yields the same item statuses whether or not an
\* implementation description is supplied: for the same state and target, the
\* path through completeWithImpl and the path through markComplete write
\* states in which every item has the same status, the upward cascade to the
\* parent Task and Epic included.
C30_DoneSameStatusesWithImpl ==
    \A identifier \in Identifiers, ts \in CallInstants :
        LET plain == done(state, identifier, None, ts)
            described == done(state, identifier, Some(ImplText), ts)
        IN  /\ plain.exit = described.exit
            /\ statuses(plain.state) = statuses(described.state)

====
